---- MODULE Spec2Model ----
(***************************************************************************)
(* A model of the INGRES retrieval-augmented question answering core:      *)
(* the query orchestrator of app/rag_engine.py (entity extraction, intent  *)
(* classification, dual retrieval, context building, answer generation     *)
(* with fallback, confidence scoring), the LangChain orchestrator of       *)
(* app/rag_engine_langchain.py and the collaborators they call.            *)
(*                                                                         *)
(* Text is modelled by TLA+ strings, on which TLC evaluates Len, SubSeq    *)
(* and \o character by character, so substring containment and lowercasing *)
(* are computed the way Python computes them.                              *)
(***************************************************************************)
EXTENDS Integers, Sequences, FiniteSets, TLC

VARIABLES
    query,                \* request.query
    processor,            \* "rag": QueryProcessor, "langchain": LangchainQueryProcessor
    gemini_model,         \* settings.gemini_api_key is set: self.gemini_model / self.llm is not None
    retriever,            \* LangchainQueryProcessor.retriever is not None
    fault,                \* the sub-step into which an exception is injected, or "none"
    db_mode,              \* "mongo": the real adapter, "mock": the mock that replaced it
    collection,           \* the records of groundwater_collection, in order
    index,                \* vector_store.index: NoIndex or the stored vectors
    documents,            \* vector_store.documents
    pc,                   \* position of the process_query coroutine
    entities,             \* result of _extract_entities
    intent,               \* result of _classify_intent
    structured_results,   \* result of _retrieve_structured_data
    unstructured_results, \* result of _retrieve_unstructured_data
    context,              \* result of _build_context
    answer,               \* result of _generate_answer
    response,             \* the QueryResponse returned, NoResponse before
    exc,                  \* the class of the exception in flight, or "None"
    calls,                \* the calls made to the store, the index and the generation backend
    index_file,           \* data/faiss_index.bin
    documents_file,       \* data/documents.pkl
    nsaves,               \* the number of save_index calls begun so far
    op,                   \* the last call on the vector store and what it returned
    roundtrip,            \* how far an add_documents, save_index, load_index sequence got
    rebuild               \* the data found, the process_all_data tasks and the event loop

disk == <<index_file, documents_file, nsaves, op, roundtrip, rebuild>>
config == <<query, processor, gemini_model, retriever, fault, db_mode, collection,
            index, documents, disk>>
vars == <<query, processor, gemini_model, retriever, fault, db_mode, collection,
          index, documents, pc, entities, intent, structured_results,
          unstructured_results, context, answer, response, calls, exc, disk>>

-----------------------------------------------------------------------------
(* Strings *)

\* str.lower() on one character (ASCII letters; every other character is kept)
LowerChar(c) ==
    CASE c = "A" -> "a" [] c = "B" -> "b" [] c = "C" -> "c" [] c = "D" -> "d"
      [] c = "E" -> "e" [] c = "F" -> "f" [] c = "G" -> "g" [] c = "H" -> "h"
      [] c = "I" -> "i" [] c = "J" -> "j" [] c = "K" -> "k" [] c = "L" -> "l"
      [] c = "M" -> "m" [] c = "N" -> "n" [] c = "O" -> "o" [] c = "P" -> "p"
      [] c = "Q" -> "q" [] c = "R" -> "r" [] c = "S" -> "s" [] c = "T" -> "t"
      [] c = "U" -> "u" [] c = "V" -> "v" [] c = "W" -> "w" [] c = "X" -> "x"
      [] c = "Y" -> "y" [] c = "Z" -> "z" [] OTHER -> c

RECURSIVE Lower(_)
\* str.lower(), character by character (the text is halved to keep the
\* evaluation shallow)
Lower(s) ==
    IF Len(s) <= 1 THEN LowerChar(s)
    ELSE LET h == Len(s) \div 2
         IN  Lower(SubSeq(s, 1, h)) \o Lower(SubSeq(s, h + 1, Len(s)))

\* Python's `p in s` on strings: p occurs in s as a contiguous substring
Contains(s, p) ==
    \E i \in 0..(Len(s) - Len(p)) : SubSeq(s, i + 1, i + Len(p)) = p

\* any(p in s for p in patterns), patterns a sequence of strings
AnyIn(patterns, s) ==
    \E i \in 1..Len(patterns) : Contains(s, patterns[i])

RECURSIVE MatchesInFirst(_, _)
\* The matching loop left at the first term found
MatchesInFirst(patterns, s) ==
    IF patterns = <<>> THEN <<>>
    ELSE IF Contains(s, Head(patterns)) THEN <<Head(patterns)>>
    ELSE MatchesInFirst(Tail(patterns), s)

\* [x for x in patterns if x in s], in the order of patterns
RECURSIVE MatchesIn(_, _)
MatchesIn(patterns, s) ==
    IF patterns = <<>> THEN <<>>
    ELSE (IF Contains(s, Head(patterns)) THEN <<Head(patterns)>> ELSE <<>>)
             \o MatchesIn(Tail(patterns), s)

-----------------------------------------------------------------------------
(* QueryProcessor.__init__: the entity vocabulary *)

States ==
    << "andhra pradesh", "arunachal pradesh", "assam", "bihar", "chhattisgarh",
       "goa", "gujarat", "haryana", "himachal pradesh", "jharkhand", "karnataka",
       "kerala", "madhya pradesh", "maharashtra", "manipur", "meghalaya",
       "mizoram", "nagaland", "odisha", "punjab", "rajasthan", "sikkim",
       "tamil nadu", "telangana", "tripura", "uttar pradesh", "uttarakhand",
       "west bengal", "delhi", "chandigarh", "dadra and nagar haveli",
       "daman and diu", "lakshadweep", "puducherry",
       "andaman and nicobar islands", "jammu and kashmir", "ladakh" >>

Metrics ==
    << "rainfall", "ground water extraction", "groundwater extraction",
       "annual extractable ground water resources", "water resources",
       "precipitation", "aquifer", "bore well", "tube well" >>

Years == << "2024", "2025", "2023", "2022", "2021" >>

\* _extract_entities
ExtractEntities(q) ==
    LET query_lower == Lower(q)
    IN  [ states  |-> MatchesIn(States, query_lower),
          metrics |-> MatchesIn(Metrics, query_lower),
          years   |-> MatchesIn(Years, query_lower) ]

-----------------------------------------------------------------------------
(* _classify_intent: the pattern lists and the ordered rule chain *)

help_patterns == << "help", "how to use", "guide", "tutorial", "assistance", "support" >>
help_questions == << "how to use this", "how do i", "can you help", "need help", "how to" >>
greeting_patterns ==
    << "hi", "hello", "hey", "namaste", "good morning", "good evening", "greetings" >>
farewell_patterns == << "bye", "goodbye", "see you", "farewell", "take care" >>
comparison_patterns ==
    << "compare", " vs ", " versus ", "difference between", "compare between" >>
data_request_patterns ==
    << "what is rainfall", "rainfall in", "rainfall data", "rainfall for",
       "what is groundwater", "groundwater in", "groundwater data", "groundwater for",
       "show me", "give me", "tell me about", "data for", "information for",
       "statistics for", "stats for", "how much rain", "rain in" >>
stats_keywords ==
    << "rainfall", "groundwater", "extraction", "resources", "data", "statistics",
       "mm", "cubic" >>
explanation_patterns ==
    << "how does", "what does", "explain", "definition of", "meaning of",
       "what are the", "how do", "why does", "process of" >>
definition_patterns == << "what is groundwater extraction", "what is water cycle", "what is" >>
definition_data_words == << "data", "in ", "for " >>
default_keywords == << "rainfall", "groundwater", "extraction", "data" >>

IntentLabels ==
    { "greeting", "farewell", "help", "statistics", "comparison", "explanation", "general" }

\* The last rules without the final return: a query no rule matches gets no label
ClassifyTailNoDefault(query_lower, state_mentioned) ==
    IF /\ AnyIn(definition_patterns, query_lower)
       /\ ~state_mentioned
       /\ ~AnyIn(definition_data_words, query_lower)
    THEN "explanation"
    ELSE IF AnyIn(explanation_patterns, query_lower)
    THEN (IF ~AnyIn(data_request_patterns, query_lower) THEN "explanation" ELSE "statistics")
    ELSE IF AnyIn(default_keywords, query_lower) THEN "statistics"
    ELSE "None"

\* The last rules of _classify_intent (after the state + metric rule): definition
\* questions, explanation patterns, the keyword sweep, the default
ClassifyTail(query_lower, state_mentioned) ==
    IF /\ AnyIn(definition_patterns, query_lower)
       /\ ~state_mentioned
       /\ ~AnyIn(definition_data_words, query_lower)
    THEN "explanation"
    ELSE IF AnyIn(explanation_patterns, query_lower)
    THEN (IF ~AnyIn(data_request_patterns, query_lower) THEN "explanation" ELSE "statistics")
    ELSE IF AnyIn(default_keywords, query_lower) THEN "statistics"
    ELSE "general"

\* The rule chain with the rule of the definition and explanation patterns put
\* before the data-request rule
ClassifyIntentExplanationFirst(q) ==
    LET query_lower     == Lower(q)
        state_mentioned  == AnyIn(States, query_lower)
        metric_mentioned == AnyIn(Metrics, query_lower)
    IN  IF AnyIn(help_patterns, query_lower) \/ AnyIn(help_questions, query_lower)
        THEN "help"
        ELSE IF AnyIn(greeting_patterns, query_lower) THEN "greeting"
        ELSE IF AnyIn(farewell_patterns, query_lower) THEN "farewell"
        ELSE IF AnyIn(comparison_patterns, query_lower) THEN "comparison"
        ELSE IF AnyIn(definition_patterns, query_lower)
                  \/ AnyIn(explanation_patterns, query_lower)
        THEN "explanation"
        ELSE IF AnyIn(data_request_patterns, query_lower) THEN "statistics"
        ELSE IF state_mentioned /\ (metric_mentioned \/ AnyIn(stats_keywords, query_lower))
        THEN "statistics"
        ELSE ClassifyTail(query_lower, state_mentioned)

\* The rule chain with the greeting rule put before the help rule
ClassifyIntentGreetingFirst(q) ==
    LET query_lower     == Lower(q)
        state_mentioned  == AnyIn(States, query_lower)
        metric_mentioned == AnyIn(Metrics, query_lower)
    IN  IF AnyIn(greeting_patterns, query_lower) THEN "greeting"
        ELSE IF AnyIn(help_patterns, query_lower) \/ AnyIn(help_questions, query_lower)
        THEN "help"
        ELSE IF AnyIn(farewell_patterns, query_lower) THEN "farewell"
        ELSE IF AnyIn(comparison_patterns, query_lower) THEN "comparison"
        ELSE IF AnyIn(data_request_patterns, query_lower) THEN "statistics"
        ELSE IF state_mentioned /\ (metric_mentioned \/ AnyIn(stats_keywords, query_lower))
        THEN "statistics"
        ELSE ClassifyTail(query_lower, state_mentioned)

ClassifyIntent(q) ==
    LET query_lower     == Lower(q)
        state_mentioned  == AnyIn(States, query_lower)
        metric_mentioned == AnyIn(Metrics, query_lower)
    IN  IF AnyIn(help_patterns, query_lower) \/ AnyIn(help_questions, query_lower)
        THEN "help"
        ELSE IF AnyIn(greeting_patterns, query_lower) THEN "greeting"
        ELSE IF AnyIn(farewell_patterns, query_lower) THEN "farewell"
        ELSE IF AnyIn(comparison_patterns, query_lower) THEN "comparison"
        ELSE IF AnyIn(data_request_patterns, query_lower) THEN "statistics"
        ELSE IF state_mentioned /\ (metric_mentioned \/ AnyIn(stats_keywords, query_lower))
        THEN "statistics"
        ELSE ClassifyTail(query_lower, state_mentioned)

-----------------------------------------------------------------------------
(* The fixed answer texts.  A character outside ASCII is written "~", or    *)
(* "1" when str.isdigit() holds of it, so that lengths and digit tests are  *)
(* those of the source text.                                                *)

ApologyAnswer ==
    "I apologize, but I encountered an error while processing your query. Please try again or rephrase your question."

FallbackGreeting ==
    "Hello! Welcome to INGRES (Integrated Groundwater Resource Information System). \n\nI'm here to help you with information about groundwater resources in India. I can assist you with:\n\n~~~1 Groundwater statistics for different states\n~~~1 Rainfall data and its relationship with groundwater\n~~~1 Water extraction and resource availability information\n~~~1 Using the INGRES system and understanding reports\n~~~1 General groundwater management questions\n\nWhat would you like to know about groundwater resources today?"

FallbackFarewell ==
    "Thank you for using INGRES! If you need any more information about groundwater resources in India, feel free to ask anytime. Take care! ~~~~"

FallbackHelp ==
    "I'm the INGRES assistant and I can help you with various groundwater-related queries:\n\n~~~~ **Data & Statistics:**\n- State-wise groundwater data\n- Rainfall patterns and trends\n- Water extraction figures\n- Resource availability\n\n~~~~~~ **System Help:**\n- How to use INGRES platform\n- Understanding reports and data\n- Uploading shapefiles\n- Navigation guidance\n\n~~~~ **Information:**\n- Groundwater management practices\n- Technical terminology\n- Policy and regulations\n\nJust ask me about any specific state, data point, or general groundwater topic!"

FallbackNoContext ==
    "I couldn't find specific information to answer your query. Please try rephrasing your question or ask about specific states or groundwater metrics like rainfall, extraction, or resources."

FallbackStatistics ==
    "Based on the available data, here are the groundwater statistics for the requested region. The data includes rainfall patterns, groundwater extraction figures, and annual extractable resources. Please refer to the sources for detailed numbers and specific metrics."

FallbackComparison ==
    "I can help you compare groundwater data between different states or regions. The comparison would include rainfall patterns, extraction rates, and available resources. Please specify which states or metrics you'd like to compare."

FallbackExplanation ==
    "I can explain various aspects of groundwater management and the INGRES system. This includes how data is collected, what different metrics mean, and how to interpret the results."

FallbackGeneric ==
    "Based on the available information in our groundwater database, I found some relevant data for your query. The information includes state-wise statistics, rainfall data, and resource availability figures."

-----------------------------------------------------------------------------
(* More string helpers *)

Min(a, b) == IF a <= b THEN a ELSE b

Whitespace == { " ", "\n", "\t", "\r" }

Digits == << "0", "1", "2", "3", "4", "5", "6", "7", "8", "9" >>

\* any(char.isdigit() for char in s)
HasDigit(s) == AnyIn(Digits, s)

\* not s.strip()
IsBlank(s) == \A i \in 1..Len(s) : SubSeq(s, i, i) \in Whitespace

\* str.strip(): from the first to the last character that is not whitespace
Strip(s) ==
    LET solid == { i \in 1..Len(s) : SubSeq(s, i, i) \notin Whitespace }
    IN  IF solid = {} THEN ""
        ELSE SubSeq(s, CHOOSE i \in solid : \A j \in solid : i <= j,
                       CHOOSE i \in solid : \A j \in solid : i >= j)

\* s[:n]
Take(s, n) == SubSeq(s, 1, Min(n, Len(s)))

RECURSIVE Repeat(_, _)
\* s * n
Repeat(s, n) == IF n = 0 THEN "" ELSE s \o Repeat(s, n - 1)

-----------------------------------------------------------------------------
(* _calculate_confidence.  Scores are integers in hundredths (0.1 is 10).  *)

ContextNorm == 1000      \* len(context) / 1000
AnswerNorm == 200        \* len(answer) / 200
ConfidenceFloor == 10    \* return 0.1
specificity_words == << "state", "rainfall", "groundwater", "ham", "mm" >>

\* The weighted sum with the context score left unclamped
RawConfidenceUnclamped(ctx, ans) ==
    4 * Len(ctx) + 15 * Min(Len(ans), AnswerNorm)
        + (IF HasDigit(ans) THEN 900 ELSE 0)
        + (IF AnyIn(specificity_words, Lower(ans)) THEN 600 ELSE 0)

\* context_score * 0.4 + answer_score * 0.3 + specificity_score * 0.3, in units
\* of 1/10000
RawConfidence(ctx, ans) ==
    LET context_score == 4 * Min(Len(ctx), ContextNorm)       \* 0.4 / 1000
        answer_score  == 15 * Min(Len(ans), AnswerNorm)        \* 0.3 / 200
        digit_bonus   == IF HasDigit(ans) THEN 900 ELSE 0      \* 0.3 * 0.3
        word_bonus    == IF AnyIn(specificity_words, Lower(ans))
                         THEN 600 ELSE 0                          \* 0.2 * 0.3
    IN  context_score + answer_score + digit_bonus + word_bonus

\* round(x, 2) of x / 10000, in hundredths; an exact tie goes to the even
\* neighbour (on floats the tie is decided by the binary representation)
Round2(x) ==
    LET q == x \div 100
        r == x % 100
    IN  IF r > 50 \/ (r = 50 /\ q % 2 = 1) THEN q + 1 ELSE q

\* The floor returned only when context and answer are both empty
CalculateConfidenceBothEmpty(ctx, ans) ==
    IF ctx = "" /\ ans = "" THEN ConfidenceFloor
    ELSE Round2(RawConfidence(ctx, ans))

CalculateConfidence(ctx, ans) ==
    IF ctx = "" \/ ans = "" THEN ConfidenceFloor
    ELSE Round2(RawConfidence(ctx, ans))

-----------------------------------------------------------------------------
(* _generate_fallback_answer and _generate_answer *)

Conversational == { "greeting", "farewell", "help" }

GenerateFallbackAnswer(q, ctx, the_intent) ==
    IF the_intent = "greeting" THEN FallbackGreeting
    ELSE IF the_intent = "farewell" THEN FallbackFarewell
    ELSE IF the_intent = "help" THEN FallbackHelp
    ELSE IF ctx = "" THEN FallbackNoContext
    ELSE IF the_intent = "statistics" /\ Contains(Lower(ctx), "state")
    THEN FallbackStatistics
    ELSE IF the_intent = "comparison" THEN FallbackComparison
    ELSE IF the_intent = "explanation" THEN FallbackExplanation
    ELSE FallbackGeneric

\* Generation reached whenever a backend is configured, whatever the context
CallsGenerationAlways(configured, ctx, the_intent) == configured

\* Whether _generate_answer reaches self.gemini_model.generate_content: a backend
\* is configured and, for a technical intent, the context is not blank
CallsGeneration(configured, ctx, the_intent) ==
    /\ configured
    /\ ~(the_intent \notin Conversational /\ IsBlank(ctx))

\* What generate_content does when called: it raises, or returns a text
GenerationOutcome(raises, text) == [raises |-> raises, text |-> text]

\* _generate_answer with an except branch that answers with the apology
GenerateAnswerApologizes(q, ctx, the_intent, configured, outcome) ==
    IF ~configured \/ (the_intent \notin Conversational /\ IsBlank(ctx))
    THEN GenerateFallbackAnswer(q, ctx, the_intent)
    ELSE IF outcome.raises THEN ApologyAnswer
    ELSE Strip(outcome.text)

\* _generate_answer: the fallback text when generation is not reached or the call
\* raises (the except branch), else the stripped text of the response
GenerateAnswer(q, ctx, the_intent, configured, outcome) ==
    IF ~CallsGeneration(configured, ctx, the_intent)
    THEN GenerateFallbackAnswer(q, ctx, the_intent)
    ELSE IF outcome.raises THEN GenerateFallbackAnswer(q, ctx, the_intent)
    ELSE Strip(outcome.text)

-----------------------------------------------------------------------------
(* Structured records.  A record (a Python dict) is the sequence of its    *)
(* <<key, value>> pairs in insertion order; a value is tagged with its     *)
(* Python type and carries the text str(value) yields.                     *)

Num(s) == [t |-> "num", s |-> s]      \* an int or float
Str(s) == [t |-> "str", s |-> s]
None == [t |-> "none", s |-> "None"]

Keys(item) == [i \in 1..Len(item) |-> item[i][1]]
HasKey(item, k) == \E i \in 1..Len(item) : item[i][1] = k
\* item[k], for a key the record has
Get(item, k) == item[CHOOSE i \in 1..Len(item) : item[i][1] = k][2]

\* A record as the preprocessor stores it (GroundWaterData.dict(), read back
\* from the collection with its _id first)
GroundWaterRecord(id, state, rainfall, extraction, resources, year) ==
    << <<"_id", Str(id)>>, <<"state", Str(state)>>, <<"rainfall_mm", Num(rainfall)>>,
       <<"ground_water_extraction_ham", Num(extraction)>>,
       <<"annual_extractable_ground_water_resources_ham", Num(resources)>>,
       <<"url", Str("data/structure_tables/ingres.csv")>>, <<"year", Str(year)>> >>

\* MockDatabaseManager.mock_data
MockRecord(state, rainfall, level) ==
    << <<"state", Str(state)>>, <<"rainfall", Num(rainfall)>>,
       <<"groundwater_level", Num(level)>> >>

mock_data_keys == << "bihar", "maharashtra", "rajasthan", "punjab" >>
mock_data ==
    << MockRecord("Bihar", "1202.46", "12.5"), MockRecord("Maharashtra", "1039.98", "15.2"),
       MockRecord("Rajasthan", "431.23", "8.9"), MockRecord("Punjab", "617.85", "18.3") >>

-----------------------------------------------------------------------------
(* DatabaseManager.query_groundwater_data and its mock *)

\* The regular expressions the adapter sends are the state names and the query
\* text: literal characters and the postfix "?" (the preceding character is
\* optional).  MatchHere: the pattern matches a prefix of the text.
RECURSIVE MatchHere(_, _)
MatchHere(p, t) ==
    IF p = "" THEN TRUE
    ELSE LET c == SubSeq(p, 1, 1)
             optional == Len(p) >= 2 /\ SubSeq(p, 2, 2) = "?"
             rest == SubSeq(p, IF optional THEN 3 ELSE 2, Len(p))
             eats == t # "" /\ SubSeq(t, 1, 1) = c /\ MatchHere(rest, SubSeq(t, 2, Len(t)))
         IN  IF optional THEN MatchHere(rest, t) \/ eats ELSE eats

\* {"$regex": p, "$options": "i"} on a field value: an unanchored,
\* case-insensitive search; only a string value can match
RegexMatches(p, value) ==
    /\ value.t = "str"
    /\ \E i \in 1..(Len(value.s) + 1) :
           MatchHere(Lower(p), SubSeq(Lower(value.s), i, Len(value.s)))

\* A pattern that starts with the quantifier is rejected by the store
RegexValid(p) == ~(Len(p) >= 1 /\ SubSeq(p, 1, 1) = "?")

state_fields == << "STATE", "State", "state" >>
text_fields == << "STATE", "State", "state", "year" >>
DbListLimit == 100      \* cursor.to_list(length=100)

\* {"$or": [{f: regex} for f in fields]}
OrRegex(item, fields, p) ==
    \E i \in 1..Len(fields) :
        HasKey(item, fields[i]) /\ RegexMatches(p, Get(item, fields[i]))

RECURSIVE Filter(_, _, _)
\* the records of the collection, in order, that the $or filter accepts
Filter(coll, fields, p) ==
    IF coll = <<>> THEN <<>>
    ELSE (IF OrRegex(Head(coll), fields, p) THEN <<Head(coll)>> ELSE <<>>)
             \o Filter(Tail(coll), fields, p)

\* DatabaseManager.query_groundwater_data(state=..., text_search=...), year never
\* being passed by the orchestrator.  raises: the find on the collection fails,
\* which the method's own handler turns into [].
MongoQuery(coll, state, text_search, raises) ==
    LET found ==
            IF text_search # "" THEN Filter(coll, text_fields, text_search)
            ELSE IF state # "" THEN Filter(coll, state_fields, state)
            ELSE coll
        pattern == IF text_search # "" THEN text_search ELSE state
    IN  IF raises \/ ~RegexValid(pattern) THEN <<>>
        ELSE SubSeq(found, 1, Min(Len(found), DbListLimit))

\* MockDatabaseManager.query_groundwater_data(state=None, **kwargs)
MockQuery(state, text_search) ==
    IF state # ""
    THEN LET state_key == Strip(Lower(state))
         IN  IF \E i \in 1..Len(mock_data_keys) : mock_data_keys[i] = state_key
             THEN << mock_data[CHOOSE i \in 1..Len(mock_data_keys) :
                                   mock_data_keys[i] = state_key] >>
             ELSE <<>>
    ELSE mock_data

\* db_manager.query_groundwater_data as the orchestrator sees it: the real
\* adapter, or the mock whose methods replace it when the connection failed
QueryGroundwaterData(mode, coll, state, text_search, raises) ==
    IF mode = "mock" THEN MockQuery(state, text_search)
    ELSE MongoQuery(coll, state, text_search, raises)

-----------------------------------------------------------------------------
(* _retrieve_structured_data *)

StructuredLimit == 10      \* results[:10]

DbCall(state, text_search) == [op |-> "query_groundwater_data", state |-> state,
                               text_search |-> text_search]

RECURSIVE QueryStates(_, _, _, _)
\* for state in states: results.extend(await db_manager.query_groundwater_data(state=state))
QueryStates(states, mode, coll, raises) ==
    IF states = <<>> THEN <<>>
    ELSE QueryGroundwaterData(mode, coll, Head(states), "", raises)
             \o QueryStates(Tail(states), mode, coll, raises)

\* The stages with the free-text search issued whatever the state queries found
StructuredStagesTextAlways(q, ents, mode, coll, raises) ==
    LET by_entities == QueryStates(ents.states, mode, coll, raises)
        calls1      == [i \in 1..Len(ents.states) |-> DbCall(ents.states[i], "")]
    IN  [ results |-> by_entities \o QueryGroundwaterData(mode, coll, "", q, raises),
          calls |-> Append(calls1, DbCall("", q)) ]

\* The three stages of _retrieve_structured_data, with the store calls each
\* issues: the extracted states, then (nothing found) the first vocabulary state
\* the query names, then (still nothing) the free-text search
StructuredStages(q, ents, mode, coll, raises) ==
    LET by_entities == QueryStates(ents.states, mode, coll, raises)
        calls1      == [i \in 1..Len(ents.states) |-> DbCall(ents.states[i], "")]
        named       == MatchesIn(States, Lower(q))
        direct      == by_entities = <<>> /\ named # <<>>
        by_direct   == IF direct
                       THEN QueryGroundwaterData(mode, coll, Head(named), "", raises)
                       ELSE <<>>
        calls2      == IF direct THEN << DbCall(Head(named), "") >> ELSE <<>>
        results2    == by_entities \o by_direct
        text        == results2 = <<>>
        by_text     == IF text
                       THEN QueryGroundwaterData(mode, coll, "", q, raises)
                       ELSE <<>>
        calls3      == IF text THEN << DbCall("", q) >> ELSE <<>>
    IN  [ results |-> results2 \o by_text, calls |-> calls1 \o calls2 \o calls3 ]

RetrieveStructuredData(q, ents, mode, coll, raises) ==
    LET all == StructuredStages(q, ents, mode, coll, raises).results
    IN  SubSeq(all, 1, Min(Len(all), StructuredLimit))

-----------------------------------------------------------------------------
(* VectorStoreManager.search_similar.  The index is None ("None") or the    *)
(* sequence of the stored vectors; the embedder is external, so a vector is *)
(* represented by its inner product with the embedding of the query at     *)
(* hand, in hundredths.                                                     *)

top_k_results == 5             \* settings.top_k_results
FaissNoLabel == -1             \* the label faiss reports where it has no neighbour
FaissNoScore == -2147483647    \* the score faiss reports there (the lowest float32)

\* self.index is None; a text longer than any index of the model has vectors
NoIndex == "self.index is None"

\* The positions of the index ordered by descending score (earlier position first
\* among equal scores), as IndexFlatIP.search returns them
RECURSIVE Ranked(_, _)
Ranked(vectors, left) ==
    IF left = {} THEN <<>>
    ELSE LET best == CHOOSE i \in left :
                         \A j \in left : \/ vectors[i] > vectors[j]
                                         \/ (vectors[i] = vectors[j] /\ i <= j)
         IN  << best >> \o Ranked(vectors, left \ {best})

\* index.search(query_embedding, k): k (score, label) pairs, labels 0-based,
\* padded with the no-neighbour pair when the index holds fewer than k vectors
FaissSearch(vectors, k) ==
    LET order == Ranked(vectors, 1..Len(vectors))
    IN  [ i \in 1..k |->
            IF i <= Len(order) THEN [score |-> vectors[order[i]], idx |-> order[i] - 1]
            ELSE [score |-> FaissNoScore, idx |-> FaissNoLabel] ]

\* self.documents[idx] for idx < len(self.documents): a negative idx counts from
\* the end of the list
DocumentAt(docs, idx) == IF idx >= 0 THEN docs[idx + 1] ELSE docs[Len(docs) + idx + 1]

RECURSIVE SearchResults(_, _, _)
\* the loop of search_similar over the (score, idx) pairs from position i on
SearchResults(found, docs, i) ==
    IF i > Len(found) THEN <<>>
    ELSE (IF found[i].idx < Len(docs)
          THEN << [ doc |-> DocumentAt(docs, found[i].idx),
                    similarity_score |-> found[i].score, rank |-> i ] >>
          ELSE <<>>) \o SearchResults(found, docs, i + 1)

SearchSimilar(vectors, docs, top_k) ==
    IF vectors = NoIndex \/ Len(docs) = 0 THEN <<>>
    ELSE SearchResults(FaissSearch(vectors, top_k), docs, 1)

\* _retrieve_unstructured_data answering an exception with a passage that reports it
RetrieveUnstructuredDataReporting(vectors, docs, raises) ==
    IF raises
    THEN << [ doc |-> [content |-> "vector search failed", source |-> "None",
                       source_type |-> "error"],
              similarity_score |-> 0, rank |-> 1 ] >>
    ELSE SearchSimilar(vectors, docs, top_k_results)

\* _retrieve_unstructured_data: an exception of search_similar is answered by []
RetrieveUnstructuredData(vectors, docs, raises) ==
    IF raises THEN <<>> ELSE SearchSimilar(vectors, docs, top_k_results)

-----------------------------------------------------------------------------
(* _build_context *)

ContextRecords == 5        \* structured[:5]
ContextDocuments == 3      \* unstructured[:3]
ContentBudget == 500       \* item.get("content", "")[:500]
Bullet == "[-]"            \* the three characters that start every field line

NoKey == "<None>"

\* next((k for k in item.keys() if Test(k.lower())), None)
FirstKey(item, Test(_)) ==
    LET hits == { i \in 1..Len(item) : Test(Lower(item[i][1])) }
    IN  IF hits = {} THEN NoKey
        ELSE item[CHOOSE i \in hits : \A j \in hits : i <= j][1]

IsStateKey(k) == k \in { "state", "state_name", "state_ut" }
IsRainfallKey(k) == Contains(k, "rainfall") \/ Contains(k, "precipitation")
IsExtractionKey(k) ==
    Contains(k, "extraction") \/ Contains(k, "ground_water") \/ Contains(k, "groundwater")
IsResourcesKey(k) == Contains(k, "resources") \/ Contains(k, "extractable")

RECURSIVE Without(_, _)
\* s with every character of the set removed
Without(s, chars) ==
    IF s = "" THEN ""
    ELSE IF Len(s) = 1 THEN (IF s \in chars THEN "" ELSE s)
    ELSE LET h == Len(s) \div 2
         IN  Without(SubSeq(s, 1, h), chars) \o Without(SubSeq(s, h + 1, Len(s)), chars)

\* str.isdigit(): not empty and digits only
IsDigitString(s) ==
    /\ s # ""
    /\ \A i \in 1..Len(s) : \E d \in 1..Len(Digits) : SubSeq(s, i, i) = Digits[d]

RECURSIVE Join(_, _)
\* sep.join(parts)
Join(parts, sep) ==
    IF parts = <<>> THEN ""
    ELSE IF Len(parts) = 1 THEN parts[1]
    ELSE LET h == Len(parts) \div 2
         IN  Join(SubSeq(parts, 1, h), sep) \o sep
                 \o Join(SubSeq(parts, h + 1, Len(parts)), sep)

RECURSIVE OtherFields(_, _, _)
\* the lines for the fields that carry none of the four recognised keys
OtherFields(item, i, skip) ==
    IF i > Len(item) THEN <<>>
    ELSE LET key == item[i][1]
             value == item[i][2]
             shown ==
                 /\ key \notin skip
                 /\ value.t # "none"
                 /\ Strip(value.s) # ""
                 /\ \/ value.t = "num"
                    \/ value.t = "str" /\ IsDigitString(Without(value.s, {".", "-", ","}))
         IN  (IF shown THEN << "  " \o Bullet \o " " \o key \o ": " \o value.s >> ELSE <<>>)
                 \o OtherFields(item, i + 1, skip)

\* The lines of one record block, "Record i" being its 1-based position
RecordBlock(item, i) ==
    LET state_key      == FirstKey(item, IsStateKey)
        rainfall_key   == FirstKey(item, IsRainfallKey)
        extraction_key == FirstKey(item, IsExtractionKey)
        resources_key  == FirstKey(item, IsResourcesKey)
        Line(key, label, unit) ==
            IF key # NoKey
            THEN << "  " \o Bullet \o " " \o label \o ": " \o Get(item, key).s \o unit >>
            ELSE <<>>
    IN  << "\nRecord " \o ToString(i) \o ":" >>
          \o Line(state_key, "State/UT", "")
          \o Line(rainfall_key, "Annual Rainfall", " mm")
          \o Line(extraction_key, "Ground Water Extraction", "")
          \o Line(resources_key, "Annual Extractable Resources", "")
          \o OtherFields(item, 1, { state_key, rainfall_key, extraction_key,
                                    resources_key, "_id", "source_file" })

\* f"{x:.2f}" of a score held in hundredths
FormatScore(h) ==
    IF h = FaissNoScore THEN "-340282346638528859811704183484516925440.00"
    ELSE LET a == IF h < 0 THEN -h ELSE h
             cents == a % 100
         IN  (IF h < 0 THEN "-" ELSE "") \o ToString(a \div 100) \o "."
                 \o (IF cents < 10 THEN "0" ELSE "") \o ToString(cents)

\* The lines of one document block
DocumentBlock(item, i) ==
    << "\nDocument " \o ToString(i) \o ":",
       "  " \o Bullet \o " Source: " \o item.doc.source_type,
       "  " \o Bullet \o " Content: " \o Take(item.doc.content, ContentBudget) \o "...",
       "  " \o Bullet \o " Relevance Score: " \o FormatScore(item.similarity_score),
       "---" >>

RECURSIVE Flatten(_)
\* the concatenation of a sequence of sequences
Flatten(seqs) == IF seqs = <<>> THEN <<>> ELSE Head(seqs) \o Flatten(Tail(seqs))

\* the blocks of the first n items, Block making the lines of one item
Blocks(items, n, Block(_, _)) == Flatten([i \in 1..n |-> Block(items[i], i)])

\* The context parts with a block for every hit
ContextPartsUncapped(structured, unstructured) ==
    (IF structured # <<>>
     THEN << "=== GROUNDWATER DATABASE RECORDS ===" >>
              \o Blocks(structured, Len(structured), RecordBlock)
     ELSE <<>>)
    \o (IF unstructured # <<>>
        THEN << "\n=== ADDITIONAL DOCUMENTS ===" >>
                 \o Blocks(unstructured, Len(unstructured), DocumentBlock)
        ELSE <<>>)

ContextParts(structured, unstructured) ==
    (IF structured # <<>>
     THEN << "=== GROUNDWATER DATABASE RECORDS ===" >>
              \o Blocks(structured, Min(Len(structured), ContextRecords), RecordBlock)
     ELSE <<>>)
    \o (IF unstructured # <<>>
        THEN << "\n=== ADDITIONAL DOCUMENTS ===" >>
                 \o Blocks(unstructured, Min(Len(unstructured), ContextDocuments),
                           DocumentBlock)
        ELSE <<>>)

BuildContext(structured, unstructured, ents) ==
    Join(ContextParts(structured, unstructured), "\n")

-----------------------------------------------------------------------------
(* _compile_sources *)

SourcePreview == 200       \* item.get("content", "")[:200]

StructuredSource(item) ==
    [ type |-> "structured", source |-> "INGRES Database",
      content |-> "Groundwater data for "
                      \o (IF HasKey(item, "state") THEN Get(item, "state").s ELSE "Unknown"),
      metadata |-> item ]

UnstructuredSource(item) ==
    [ type |-> "unstructured", source |-> item.doc.source,
      source_type |-> item.doc.source_type,
      relevance_score |-> item.similarity_score,
      content |-> Take(item.doc.content, SourcePreview) \o "..." ]

\* The sources of the hits shown in the context only
CompileSourcesShown(structured, unstructured) ==
    [i \in 1..Min(Len(structured), ContextRecords) |-> StructuredSource(structured[i])]
        \o [i \in 1..Min(Len(unstructured), ContextDocuments) |->
               UnstructuredSource(unstructured[i])]

CompileSources(structured, unstructured) ==
    [i \in 1..Len(structured) |-> StructuredSource(structured[i])]
        \o [i \in 1..Len(unstructured) |-> UnstructuredSource(unstructured[i])]

-----------------------------------------------------------------------------
(* QueryResponse *)

Response(a, sources, confidence) ==
    [ answer |-> a, sources |-> sources, confidence_score |-> confidence,
      response_time |-> "measured" ]

\* No response yet: the fields at the defaults of the pydantic model
NoResponse ==
    [ answer |-> "", sources |-> <<>>, confidence_score |-> -1, response_time |-> "None" ]

\* The response of the except branch of process_query
ErrorResponse == Response(ApologyAnswer, <<>>, 0)

ShortCircuitConfidence == 100      \* confidence_score=1.0
LangchainConfidence == 90          \* confidence_score=0.9

NotInitializedAnswer ==
    "The system is not properly initialized. Please run data preprocessing first or check the configuration."

NoEntities == [states |-> <<>>, metrics |-> <<>>, years |-> <<>>]

-----------------------------------------------------------------------------
(* The inputs explored *)

MaxWords == 2      \* words per composed query

\* The queries of the tests and of the documentation
ScenarioQueries ==
    { "what is rainfall in bihar?", "bihar rainfall data",
      "show me groundwater data for bihar", "rainfall in maharashtra",
      "how to use this system?", "help me with groundwater data",
      "how does groundwater work?", "hello",
      "compare bihar vs maharashtra rainfall", "rainfall data for unknown_state",
      "", "abcdefgh random nonsense", "rainfall in bihar maharashtra punjab",
      "what is the rainfall precipitation data information for bihar state?",
      "hi, how do I use this?", "What is rainfall in Bihar",
      "Compare the rainfall between Karnataka and Gujarat in 2023-24",
      "How does Karnataka's rainfall compare to Gujarat's rainfall?" }

\* A metric and a state alone, in either order
MetricStateQueries ==
    { Metrics[m] \o " " \o States[s] : m \in 1..Len(Metrics), s \in 1..Len(States) }
        \cup { States[s] \o " " \o Metrics[m] : m \in 1..Len(Metrics), s \in 1..Len(States) }

\* Words that carry the vocabulary of every rule, and words that carry none
Words ==
    { "help", "how do I", "hello", "Hey", "goodbye", "see you", "compare", "a vs b",
      "what is rainfall", "rainfall in", "show me", "data for", "punjab", "Kerala",
      "aquifer", "rainfall", "what is", "how does", "explain", "groundwater",
      "extraction", "in", "xyz", "2024" }

RECURSIVE ComposedQueries(_)
\* the queries of at most n words, separated by single spaces
ComposedQueries(n) ==
    IF n = 0 THEN { "" }
    ELSE LET shorter == ComposedQueries(n - 1)
         IN  shorter \cup { q \o (IF q = "" THEN "" ELSE " ") \o w :
                             q \in shorter, w \in Words }

\* Queries in which vocabulary terms stand inside other words, several terms of
\* one kind occur, or a term occurs twice
EntityQueries ==
    { "the goal for 2022 rainfall", "Punjabi aquifers 20245", "bihar BIHAR Bihar 2021 2021",
      "water resources and annual extractable ground water resources of assam and goa" }

IntentQueries ==
    ScenarioQueries \cup MetricStateQueries \cup ComposedQueries(MaxWords)
        \cup EntityQueries

\* The queries sent through the whole pipeline
PipelineQueries ==
    { "hello", "", "what is rainfall in bihar?", "compare bihar vs maharashtra rainfall",
      "how does groundwater work?", "abcdefgh random nonsense", "goodbye",
      "how to use this system?", "rainfall delhi", "Rainfall in Punjab",
      "what is rainfall in delhi?" }

\* The sub-steps of QueryProcessor.process_query into which a fault is injected:
\* the named method (or, for collection_find and generate_content, the external
\* call inside it) raises an Exception
FaultSites ==
    { "extract_entities", "classify_intent", "retrieve_structured", "collection_find",
      "search_similar", "build_context", "generate_content", "compile_sources",
      "calculate_confidence" }

BiharRecords == 10      \* records of one state in the larger collection

\* One record of BIHAR per assessment unit, then one of MAHARASHTRA
ManyRecords ==
    [ i \in 1..BiharRecords |->
        GroundWaterRecord("b" \o ToString(i), "BIHAR", ToString(1200 + i) \o ".5",
                          "1415.1", "3314.5", "2024-2025") ]
      \o << GroundWaterRecord("m1", "MAHARASHTRA", "1039.98", "1650.2", "3229.8",
                               "2024-2025") >>

Collections ==
    { <<>>,
      << GroundWaterRecord("r1", "BIHAR", "1202.46", "1415.1", "3314.5", "2024-2025"),
         GroundWaterRecord("r2", "MAHARASHTRA", "1039.98", "1650.2", "3229.8", "2024-2025"),
         GroundWaterRecord("r3", "DELHI", "774.4", "36.1", "36.3", "2024-2025") >>,
      ManyRecords }

Document(content, source, source_type) ==
    [content |-> content, source |-> source, source_type |-> source_type]

DocBihar ==
    Document("State: BIHAR\nYear: 2024-2025\n\nGroundwater Information for BIHAR:\n- Annual Rainfall: 1202.46 mm",
             "data/structure_tables/ingres.csv", "csv")
DocReport ==
    Document(Repeat("Groundwater is replenished by monsoon recharge of the aquifer. ", 9),
             "data/raw/report.pdf", "pdf")
DocPortal ==
    Document("INGRES portal: interactive maps of assessment units.",
             "data/raw/portal.html", "html")

\* The states of the vector store: not loaded, initialized and empty, fewer
\* vectors than top_k_results, more vectors than top_k_results
VectorStores ==
    { [index |-> NoIndex, documents |-> <<>>],
      [index |-> <<>>, documents |-> <<>>],
      [index |-> <<81, 47>>, documents |-> <<DocBihar, DocReport>>],
      [index |-> <<12, 81, 47, 30, 66, 5>>,
       documents |-> <<DocPortal, DocBihar, DocReport, DocPortal, DocReport, DocBihar>>] }

\* What generate_content may return as response.text
GeneratedTexts ==
    { "", " No. \n", "Bihar received 1202.46 mm of rainfall in 2024-2025.",
      Repeat("I am not able to say more about that. ", 6),
      Repeat("The state recorded 1202.46 mm of rainfall. ", 5) }

GenerationOutcomes ==
    IF fault = "generate_content" THEN { GenerationOutcome(TRUE, "") }
    ELSE { GenerationOutcome(FALSE, t) : t \in GeneratedTexts }

-----------------------------------------------------------------------------
(* The files of the vector store *)

Absent == [exists |-> FALSE, bytes |-> <<>>, save |-> 0]

\* The file as the save_index call number n wrote it
File(bytes, n) == [exists |-> TRUE, bytes |-> bytes, save |-> n]

\* faiss.write_index(index, path): the type tag of IndexFlatIP, the number of
\* vectors and the vectors
WriteIndex(vectors) == [fourcc |-> "IxFI", ntotal |-> Len(vectors), codes |-> vectors]

\* faiss.read_index(path): the index, or an error on a file that does not hold
\* the vectors its header announces
ReadIndex(bytes) ==
    IF bytes.fourcc = "IxFI" /\ bytes.ntotal = Len(bytes.codes)
    THEN [ok |-> TRUE, value |-> bytes.codes]
    ELSE [ok |-> FALSE, value |-> <<>>]

\* pickle.dump(documents, f): the list, item by item, closed by the STOP opcode
PickleDump(docs) == [items |-> docs, stop |-> TRUE]

\* pickle.load(f): the list, or an error on a stream that ends before STOP
PickleLoad(bytes) ==
    IF bytes.stop THEN [ok |-> TRUE, value |-> bytes.items]
    ELSE [ok |-> FALSE, value |-> <<>>]

\* A file of which only a leading part was written, or is left
TruncatedIndex(bytes) ==
    [bytes EXCEPT !.codes = SubSeq(bytes.codes, 1, Len(bytes.codes) - 1),
                  !.fourcc = IF bytes.codes = <<>> THEN "Ix" ELSE bytes.fourcc]
TruncatedPickle(bytes) ==
    [items |-> SubSeq(bytes.items, 1, Len(bytes.items) - 1), stop |-> FALSE]

\* The errors of reading the two files, each with its base classes
ReadErrorBases ==
    [ RuntimeError    |-> { "RuntimeError", "Exception", "BaseException" },
      EOFError        |-> { "EOFError", "Exception", "BaseException" },
      UnpicklingError |-> { "UnpicklingError", "PickleError", "Exception",
                            "BaseException" },
      PermissionError |-> { "PermissionError", "OSError", "Exception",
                            "BaseException" } ]

IndexReadErrors == { "RuntimeError" }
DocumentsReadErrors == { "EOFError", "UnpicklingError", "PermissionError" }

\* A handler that takes the errors of pickle only
LoadCatchesPickleError(class) == "PickleError" \in ReadErrorBases[class]

\* except Exception as e, of load_index
LoadCatches(class) == "Exception" \in ReadErrorBases[class]

LoadResult(vectors, docs, returned) ==
    [index |-> vectors, documents |-> docs, returned |-> returned]

\* What leaves load_index when a read raised an error of the given class
LoadFailure(vectors, docs, class) ==
    LoadResult(vectors, docs, IF LoadCatches(class) THEN "False" ELSE class)

\* load_index that reads the document list only
LoadIndexDocumentsOnly(vectors, docs, ifile, dfile, ierr, derr) ==
    IF ifile.exists /\ dfile.exists
    THEN IF ~PickleLoad(dfile.bytes).ok THEN LoadFailure(vectors, docs, derr)
         ELSE LoadResult(vectors, PickleLoad(dfile.bytes).value, "True")
    ELSE LoadResult(vectors, docs, "False")

\* load_index on a manager holding (vectors, docs), with the two files as given:
\* the index and the list it holds afterwards and what the call returns, "True" or
\* "False", or the class of the exception that leaves it
LoadIndex(vectors, docs, ifile, dfile, ierr, derr) ==
    IF ifile.exists /\ dfile.exists
    THEN IF ~ReadIndex(ifile.bytes).ok THEN LoadFailure(vectors, docs, ierr)
         ELSE IF ~PickleLoad(dfile.bytes).ok
              THEN LoadFailure(ReadIndex(ifile.bytes).value, docs, derr)
              ELSE LoadResult(ReadIndex(ifile.bytes).value,
                              PickleLoad(dfile.bytes).value, "True")
    ELSE LoadResult(vectors, docs, "False")

-----------------------------------------------------------------------------
(* QueryProcessor.process_query, one action per step of the coroutine *)

NoOp == [name |-> "none", returned |-> "None", top_k |-> 0,
         before |-> [index |-> NoIndex, documents |-> <<>>]]
NoRoundTrip == [stage |-> "none", index |-> NoIndex, documents |-> <<>>]

MaxTriggers == 2    \* the most POST /reprocess-data requests in one process
Tasks == 0..MaxTriggers     \* 0: process_all_data awaited by lifespan

\* No data found, no process started, no process_all_data begun
NoRebuild ==
    [ found |-> [structured |-> <<>>, unstructured |-> <<>>],
      chunk_class |-> "TextChunk",
      tasks |-> [t \in Tasks |-> "idle"],
      running |-> {}, log |-> <<>>, boots |-> 0 ]

\* No file written yet and no call made on the vector store
FreshDisk ==
    /\ index_file = Absent /\ documents_file = Absent
    /\ nsaves = 0 /\ op = NoOp /\ roundtrip = NoRoundTrip
    /\ rebuild = NoRebuild

Idle ==
    /\ pc = "received"
    /\ entities = NoEntities /\ intent = ""
    /\ structured_results = <<>> /\ unstructured_results = <<>>
    /\ context = "" /\ answer = "" /\ response = NoResponse /\ calls = <<>>
    /\ exc = "None"

\* The exception classes a step may raise, each with its base classes up to
\* BaseException
ExceptionBases ==
    [ Exception      |-> { "Exception", "BaseException" },
      ValueError     |-> { "ValueError", "Exception", "BaseException" },
      KeyError       |-> { "KeyError", "LookupError", "Exception", "BaseException" },
      AttributeError |-> { "AttributeError", "Exception", "BaseException" } ]

ExceptionClasses == DOMAIN ExceptionBases

\* A step of the try block raises: control leaves the step with the exception
Raise ==
    /\ pc' = "raised"
    /\ exc' \in ExceptionClasses
    /\ response' = response

\* A handler that takes lookup errors only
CatchesLookupError(class) == "LookupError" \in ExceptionBases[class]

\* except Exception as e: the clause takes an exception of class Exception or of
\* a class derived from it
Catches(class) == "Exception" \in ExceptionBases[class]

\* The exception in flight reaches the except clause of process_query (of
\* QueryProcessor and of LangchainQueryProcessor alike): the clause returns the
\* fixed apologetic response; an exception it does not take leaves process_query
ExceptStep ==
    /\ pc = "raised"
    /\ IF Catches(exc)
       THEN /\ pc' = "failed"
            /\ response' = ErrorResponse
       ELSE /\ pc' = "propagated"
            /\ response' = response
    /\ exc' = "None"
    /\ UNCHANGED <<config, entities, intent, structured_results, unstructured_results,
                   context, answer, calls>>

\* entities = self._extract_entities(request.query)
ExtractEntitiesStep ==
    /\ processor = "rag" /\ pc = "received"
    /\ IF fault = "extract_entities"
       THEN Raise /\ UNCHANGED entities
       ELSE /\ entities' = ExtractEntities(query)
            /\ pc' = "extracted"
            /\ UNCHANGED <<response, exc>>
    /\ UNCHANGED <<config, intent, structured_results, unstructured_results, context,
                   answer, calls>>

\* intent = self._classify_intent(request.query)
ClassifyIntentStep ==
    /\ processor = "rag" /\ pc = "extracted"
    /\ IF fault = "classify_intent"
       THEN Raise /\ UNCHANGED intent
       ELSE /\ intent' = ClassifyIntent(query)
            /\ pc' = "classified"
            /\ UNCHANGED <<response, exc>>
    /\ UNCHANGED <<config, entities, structured_results, unstructured_results, context,
                   answer, calls>>

GenerateCall == [op |-> "generate_content", state |-> "", text_search |-> ""]
SearchCall == [op |-> "search_similar", state |-> "", text_search |-> ""]

\* if intent in ["greeting", "farewell", "help"]: answer without retrieval, return
ShortCircuitStep ==
    /\ processor = "rag" /\ pc = "classified"
    /\ intent \in Conversational
    /\ \E outcome \in GenerationOutcomes :
           /\ answer' = GenerateAnswer(query, "", intent, gemini_model, outcome)
           /\ response' = Response(answer', <<>>, ShortCircuitConfidence)
    /\ calls' = IF CallsGeneration(gemini_model, "", intent)
                THEN Append(calls, GenerateCall) ELSE calls
    /\ pc' = "returned"
    /\ UNCHANGED <<config, entities, intent, structured_results, unstructured_results,
                   context, exc>>

\* The structured retrieval entered whatever the intent
RetrieveStructuredAlways ==
    /\ processor = "rag" /\ pc = "classified"
    /\ IF fault = "retrieve_structured"
       THEN Raise /\ UNCHANGED <<structured_results, calls>>
       ELSE LET raises == fault = "collection_find"
            IN  /\ structured_results' =
                       RetrieveStructuredData(query, entities, db_mode, collection, raises)
                /\ calls' = calls \o StructuredStages(query, entities, db_mode,
                                                      collection, raises).calls
                /\ pc' = "structured"
                /\ UNCHANGED <<response, exc>>
    /\ UNCHANGED <<config, entities, intent, unstructured_results, context, answer>>

\* structured_results = await self._retrieve_structured_data(request.query, entities)
RetrieveStructuredStep ==
    /\ processor = "rag" /\ pc = "classified"
    /\ intent \notin Conversational
    /\ IF fault = "retrieve_structured"
       THEN Raise /\ UNCHANGED <<structured_results, calls>>
       ELSE LET raises == fault = "collection_find"
            IN  /\ structured_results' =
                       RetrieveStructuredData(query, entities, db_mode, collection, raises)
                /\ calls' = calls \o StructuredStages(query, entities, db_mode,
                                                      collection, raises).calls
                /\ pc' = "structured"
                /\ UNCHANGED <<response, exc>>
    /\ UNCHANGED <<config, entities, intent, unstructured_results, context, answer>>

\* The vector search without the try block of _retrieve_unstructured_data
RetrieveUnstructuredUnguarded ==
    /\ processor = "rag" /\ pc = "structured"
    /\ IF fault = "search_similar"
       THEN Raise /\ UNCHANGED unstructured_results
       ELSE /\ unstructured_results' = RetrieveUnstructuredData(index, documents, FALSE)
            /\ pc' = "unstructured"
            /\ UNCHANGED <<response, exc>>
    /\ calls' = Append(calls, SearchCall)
    /\ UNCHANGED <<config, entities, intent, structured_results, context, answer>>

\* The vector search left out when the structured retrieval found records
RetrieveUnstructuredIfNeeded ==
    /\ processor = "rag" /\ pc = "structured"
    /\ IF structured_results # <<>>
       THEN unstructured_results' = <<>> /\ calls' = calls
       ELSE /\ unstructured_results' =
                   RetrieveUnstructuredData(index, documents, fault = "search_similar")
            /\ calls' = Append(calls, SearchCall)
    /\ pc' = "unstructured"
    /\ UNCHANGED <<config, entities, intent, structured_results, context, answer,
                   response, exc>>

\* unstructured_results = self._retrieve_unstructured_data(request.query)
RetrieveUnstructuredStep ==
    /\ processor = "rag" /\ pc = "structured"
    /\ unstructured_results' =
           RetrieveUnstructuredData(index, documents, fault = "search_similar")
    /\ calls' = Append(calls, SearchCall)
    /\ pc' = "unstructured"
    /\ UNCHANGED <<config, entities, intent, structured_results, context, answer,
                   response, exc>>

\* context = self._build_context(structured_results, unstructured_results, entities)
BuildContextStep ==
    /\ processor = "rag" /\ pc = "unstructured"
    /\ IF fault = "build_context"
       THEN Raise /\ UNCHANGED context
       ELSE /\ context' = BuildContext(structured_results, unstructured_results, entities)
            /\ pc' = "context"
            /\ UNCHANGED <<response, exc>>
    /\ UNCHANGED <<config, entities, intent, structured_results, unstructured_results,
                   answer, calls>>

\* answer = await self._generate_answer(request.query, context, intent)
GenerateAnswerStep ==
    /\ processor = "rag" /\ pc = "context"
    /\ \E outcome \in GenerationOutcomes :
           answer' = GenerateAnswer(query, context, intent, gemini_model, outcome)
    /\ calls' = IF CallsGeneration(gemini_model, context, intent)
                THEN Append(calls, GenerateCall) ELSE calls
    /\ pc' = "generated"
    /\ UNCHANGED <<config, entities, intent, structured_results, unstructured_results,
                   context, response, exc>>

\* sources = self._compile_sources(...); the QueryResponse with the confidence
\* of _calculate_confidence(context, answer); return
RespondStep ==
    /\ processor = "rag" /\ pc = "generated"
    /\ IF fault \in { "compile_sources", "calculate_confidence" }
       THEN Raise
       ELSE /\ response' = Response(answer,
                                    CompileSources(structured_results, unstructured_results),
                                    CalculateConfidence(context, answer))
            /\ pc' = "returned"
            /\ exc' = exc
    /\ UNCHANGED <<config, entities, intent, structured_results, unstructured_results,
                   context, answer, calls>>

-----------------------------------------------------------------------------
(* LangchainQueryProcessor.process_query *)

lc_comparison_keywords == << "compare", "comparison", "between", "vs", "versus", "and" >>

\* What awaiting a chain (retriever, prompt, llm, parser) does: it raises, or
\* yields the answer text.  A chain built on self.llm = None cannot be built.
ChainOutcomes(llm) ==
    { GenerationOutcome(TRUE, "") }
        \cup (IF llm THEN { GenerationOutcome(FALSE, t) : t \in GeneratedTexts } ELSE {})

\* The whole body: the enhanced chain for a comparison query when a retriever
\* exists, else self.rag_chain (built only with a retriever and an llm), else the
\* fixed "not initialized" answer; an exception goes to the handler
LcProcessQuery ==
    /\ processor = "langchain" /\ pc = "received"
    /\ LET is_comparison == AnyIn(lc_comparison_keywords, Lower(query))
           rag_chain == retriever /\ gemini_model
       IN  IF (is_comparison /\ retriever) \/ rag_chain
           THEN \E outcome \in ChainOutcomes(gemini_model) :
                    IF outcome.raises
                    THEN Raise /\ UNCHANGED answer
                    ELSE /\ answer' = outcome.text
                         /\ response' = Response(answer', <<>>, LangchainConfidence)
                         /\ pc' = "returned"
                         /\ exc' = exc
           ELSE /\ answer' = NotInitializedAnswer
                /\ response' = Response(answer', <<>>, LangchainConfidence)
                /\ pc' = "returned"
                /\ exc' = exc
    /\ calls' = calls
    /\ UNCHANGED <<config, entities, intent, structured_results, unstructured_results,
                   context>>

-----------------------------------------------------------------------------
(* Specifications *)

\* One request to either orchestrator, in every configuration explored
Init ==
    /\ Idle /\ FreshDisk
    /\ query \in PipelineQueries
    /\ gemini_model \in BOOLEAN
    /\ processor \in { "rag", "langchain" }
    /\ IF processor = "rag"
       THEN /\ retriever = FALSE
            /\ fault \in FaultSites \cup { "none" }
            /\ db_mode \in { "mongo", "mock" }
            /\ collection \in IF db_mode = "mongo" THEN Collections ELSE { <<>> }
            /\ fault = "collection_find" => db_mode = "mongo"
            /\ \E v \in VectorStores : index = v.index /\ documents = v.documents
       ELSE /\ retriever \in BOOLEAN
            /\ fault = "none"
            /\ db_mode = "mock" /\ collection = <<>>
            /\ index = NoIndex /\ documents = <<>>

Next ==
    \/ ExtractEntitiesStep
    \/ ClassifyIntentStep
    \/ ShortCircuitStep
    \/ RetrieveStructuredStep
    \/ RetrieveUnstructuredStep
    \/ BuildContextStep
    \/ GenerateAnswerStep
    \/ RespondStep
    \/ LcProcessQuery
    \/ ExceptStep

Spec == Init /\ [][Next]_vars

\* The first two steps of process_query on every query of IntentQueries
InitIntent ==
    /\ Idle /\ FreshDisk
    /\ query \in IntentQueries
    /\ processor = "rag" /\ gemini_model = FALSE /\ retriever = FALSE
    /\ fault = "none"
    /\ db_mode = "mock" /\ collection = <<>>
    /\ index = NoIndex /\ documents = <<>>

NextIntent == ExtractEntitiesStep \/ ClassifyIntentStep

SpecIntent == InitIntent /\ [][NextIntent]_vars

-----------------------------------------------------------------------------
(* _calculate_confidence on contexts and answers of every length *)

ContextLengths == { 0, 1, 25, 250, 999, 1000, 1001, 2500 }
AnswerLengths == { 0, 3, 100, 199, 200, 201, 300 }

\* The openings of an answer: no digit and no domain word, a digit, a domain
\* word, both
AnswerOpenings == { "-", "7", "mm", "7mm" }

\* n times the character c
RECURSIVE Fill(_, _)
Fill(c, n) ==
    IF n = 0 THEN "" ELSE IF n = 1 THEN c
    ELSE Fill(c, n \div 2) \o Fill(c, n - (n \div 2))

ConfidenceContexts == { Fill("x", n) : n \in ContextLengths }
ConfidenceAnswers ==
    { "" } \cup { o \o Fill("-", n - Len(o)) :
                     o \in AnswerOpenings, n \in AnswerLengths \ { 0 } }

IsPrefix(p, s) == Len(p) <= Len(s) /\ SubSeq(s, 1, Len(p)) = p

\* The context handed to _calculate_confidence is a longer one, the answer the same
GrowContext ==
    /\ processor = "rag" /\ pc = "generated"
    /\ context' \in { c \in ConfidenceContexts :
                         Len(c) > Len(context) /\ IsPrefix(context, c) }
    /\ UNCHANGED <<config, pc, entities, intent, structured_results,
                   unstructured_results, answer, response, calls, exc>>

\* The answer handed to _calculate_confidence is a longer one, the context the same
GrowAnswer ==
    /\ processor = "rag" /\ pc = "generated"
    /\ answer' \in { a \in ConfidenceAnswers :
                        Len(a) > Len(answer) /\ IsPrefix(answer, a) }
    /\ UNCHANGED <<config, pc, entities, intent, structured_results,
                   unstructured_results, context, response, calls, exc>>

ConfidenceQuery == "what is rainfall in bihar?"

\* Requests of either orchestrator on the mock store, and requests of
\* QueryProcessor after _generate_answer with every context and answer above
InitConfidence ==
    /\ FreshDisk
    /\ db_mode = "mock" /\ collection = <<>>
    /\ index = NoIndex /\ documents = <<>>
    /\ \/ /\ Idle
          /\ query \in { "hello", ConfidenceQuery }
          /\ gemini_model \in BOOLEAN
          /\ processor \in { "rag", "langchain" }
          /\ retriever = (processor = "langchain")
          /\ fault \in IF processor = "rag" THEN { "none", "calculate_confidence" }
                        ELSE { "none" }
       \/ /\ query = ConfidenceQuery
          /\ processor = "rag" /\ gemini_model = TRUE /\ retriever = FALSE
          /\ fault = "none"
          /\ pc = "generated"
          /\ entities = ExtractEntities(query) /\ intent = ClassifyIntent(query)
          /\ structured_results = <<>> /\ unstructured_results = <<>>
          /\ context \in ConfidenceContexts /\ answer \in ConfidenceAnswers
          /\ response = NoResponse /\ calls = <<>> /\ exc = "None"

NextConfidence == Next \/ GrowContext \/ GrowAnswer

SpecConfidence == InitConfidence /\ [][NextConfidence]_vars

-----------------------------------------------------------------------------
(* VectorStoreManager: the calls on one store directory, over restarts *)

MaxVectors == 2     \* the most vectors in one index, and documents in one list
MaxBatch == 2       \* the most chunks in one add_documents call
MaxSaves == 2       \* the most save_index calls begun

\* A chunk with the similarity of its embedding to the query at hand
Chunk(doc, similarity) == [doc |-> doc, similarity |-> similarity]
Chunks == { Chunk(DocBihar, 81), Chunk(DocReport, 47) }
Batches == UNION { [1..n -> Chunks] : n \in 1..MaxBatch }

pipeline == <<query, processor, gemini_model, retriever, fault, db_mode, collection,
              pc, entities, intent, structured_results, context, answer, response,
              calls, exc>>

Called(name, returned, top_k, vectors, docs) ==
    [name |-> name, returned |-> returned, top_k |-> top_k,
     before |-> [index |-> vectors, documents |-> docs]]

\* add_documents(chunks) with a non-empty list
AddDocuments ==
    /\ \E batch \in Batches :
          LET held == IF index = NoIndex THEN <<>> ELSE index
          IN  /\ Len(held) + Len(batch) <= MaxVectors
              /\ Len(documents) + Len(batch) <= MaxVectors
              /\ index' = held \o [i \in 1..Len(batch) |-> batch[i].similarity]
              /\ documents' = documents \o [i \in 1..Len(batch) |-> batch[i].doc]
    /\ op' = Called("add_documents", "None", 0, NoIndex, <<>>)
    /\ roundtrip' = [stage |-> "added", index |-> NoIndex, documents |-> <<>>]
    /\ unstructured_results' = <<>>
    /\ UNCHANGED <<pipeline, rebuild, index_file, documents_file, nsaves>>

\* save_index()
SaveIndex ==
    /\ nsaves < MaxSaves
    /\ nsaves' = nsaves + 1
    /\ index_file' = IF index # NoIndex THEN File(WriteIndex(index), nsaves + 1)
                     ELSE index_file
    /\ documents_file' = File(PickleDump(documents), nsaves + 1)
    /\ op' = Called("save_index", "None", 0, NoIndex, <<>>)
    /\ roundtrip' = IF roundtrip.stage = "added"
                    THEN [stage |-> "saved", index |-> index, documents |-> documents]
                    ELSE NoRoundTrip
    /\ unstructured_results' = <<>>
    /\ UNCHANGED <<pipeline, rebuild, index, documents>>

\* save_index() of a process that is killed during the call: while it writes the
\* index file, between the two files, or while it writes the documents file. The
\* next process starts with a new VectorStoreManager.
SaveInterrupted ==
    /\ fault = "disk" /\ nsaves < MaxSaves
    /\ nsaves' = nsaves + 1
    /\ \/ /\ index # NoIndex
          /\ index_file' = File(TruncatedIndex(WriteIndex(index)), nsaves + 1)
          /\ UNCHANGED documents_file
       \/ /\ index # NoIndex
          /\ index_file' = File(WriteIndex(index), nsaves + 1)
          /\ UNCHANGED documents_file
       \/ /\ index_file' = IF index # NoIndex THEN File(WriteIndex(index), nsaves + 1)
                           ELSE index_file
          /\ documents_file' = File(TruncatedPickle(PickleDump(documents)), nsaves + 1)
    /\ index' = NoIndex /\ documents' = <<>>
    /\ op' = Called("save_index", "killed", 0, NoIndex, <<>>)
    /\ roundtrip' = NoRoundTrip
    /\ unstructured_results' = <<>>
    /\ UNCHANGED <<pipeline, rebuild>>

\* The process ends and the next one constructs its VectorStoreManager
Restart ==
    /\ index # NoIndex \/ documents # <<>>
    /\ index' = NoIndex /\ documents' = <<>>
    /\ op' = Called("restart", "None", 0, NoIndex, <<>>)
    /\ roundtrip' = IF roundtrip.stage = "saved" THEN roundtrip ELSE NoRoundTrip
    /\ unstructured_results' = <<>>
    /\ UNCHANGED <<pipeline, rebuild, index_file, documents_file, nsaves>>

\* A file of the store is removed, or loses its end, or becomes unreadable
Damage ==
    /\ fault = "disk"
    /\ \/ /\ index_file.exists
          /\ index_file' \in { Absent,
                                [index_file EXCEPT !.bytes = TruncatedIndex(@)] }
          /\ ReadIndex(index_file.bytes).ok
          /\ UNCHANGED documents_file
       \/ /\ documents_file.exists
          /\ documents_file' \in { Absent,
                                    [documents_file EXCEPT !.bytes = TruncatedPickle(@)] }
          /\ PickleLoad(documents_file.bytes).ok
          /\ UNCHANGED index_file
    /\ op' = Called("damage", "None", 0, NoIndex, <<>>)
    /\ roundtrip' = NoRoundTrip
    /\ unstructured_results' = <<>>
    /\ UNCHANGED <<pipeline, rebuild, index, documents, nsaves>>

\* load_index()
LoadIndexCall ==
    /\ \E ierr \in IndexReadErrors, derr \in DocumentsReadErrors :
          LET loaded == LoadIndex(index, documents, index_file, documents_file,
                                  ierr, derr)
          IN  /\ index' = loaded.index
              /\ documents' = loaded.documents
              /\ op' = Called("load_index", loaded.returned, 0, index, documents)
    /\ roundtrip' = IF roundtrip.stage = "saved"
                    THEN [roundtrip EXCEPT !.stage = "loaded"]
                    ELSE NoRoundTrip
    /\ unstructured_results' = <<>>
    /\ UNCHANGED <<pipeline, rebuild, index_file, documents_file, nsaves>>

\* search_similar(query, top_k)
SearchSimilarCall ==
    /\ op.name # "search_similar"
    /\ \E k \in 1..top_k_results :
          /\ unstructured_results' = SearchSimilar(index, documents, k)
          /\ op' = Called("search_similar", "None", k, NoIndex, <<>>)
    /\ UNCHANGED <<pipeline, rebuild, index, documents, index_file, documents_file, nsaves,
                   roundtrip>>

\* A store directory that is empty at first, with and without faults of the disk
InitStore ==
    /\ Idle /\ FreshDisk
    /\ query = "what is groundwater recharge?"
    /\ processor = "rag" /\ gemini_model = FALSE /\ retriever = FALSE
    /\ fault \in { "none", "disk" }
    /\ db_mode = "mock" /\ collection = <<>>
    /\ index = NoIndex /\ documents = <<>>

NextStore ==
    \/ AddDocuments
    \/ SaveIndex
    \/ SaveInterrupted
    \/ Restart
    \/ Damage
    \/ LoadIndexCall
    \/ SearchSimilarCall

SpecStore == InitStore /\ [][NextStore]_vars

-----------------------------------------------------------------------------
(* DataPreprocessor.process_all_data, started by lifespan and by             *)
(* POST /reprocess-data, as coroutines on the one event loop of the process *)

MaxBoots == 2       \* the most starts of the process

\* The class of the objects handed to add_documents: TextChunk, which
\* add_documents declares, or langchain's Document, which the loaders build and
\* which has page_content and no attribute content
ChunkClasses == { "TextChunk", "Document" }

\* What the data directories hold: the documents made of the structured records
\* and the chunks of the unstructured files
FoundData ==
    { [structured |-> s, unstructured |-> u] :
        s \in { <<>>, << Chunk(DocBihar, 81) >> },
        u \in { <<>>, << Chunk(DocReport, 47) >> } }

Similarities(batch) == [i \in 1..Len(batch) |-> batch[i].similarity]
Contents(batch) == [i \in 1..Len(batch) |-> batch[i].doc]

\* An await that suspends on each await expression of process_all_data
SuspendsAtEveryAwait(line) == TRUE

\* Whether the await at the line of preprocessor.py hands the event loop to other
\* coroutines: store_groundwater_data awaits the database driver,
\* process_unstructured_data awaits nothing
Suspends(line) == line = 35

Logged(t, name) == [task |-> t, op |-> name]

\* The task may take its next step: it holds the loop, or nobody does
CanRun(t) == rebuild.running \subseteq { t }

\* The application serves requests: lifespan has passed its startup part
Serving == rebuild.boots > 0 /\ rebuild.tasks[0] \in { "idle", "done" }

\* add_documents(chunks) inside process_all_data: the index and the list after it
\* and whether it raised (chunk.content on an object without that attribute,
\* after the index was initialized)
AddChunks(vectors, docs, batch, class) ==
    LET held == IF vectors = NoIndex THEN <<>> ELSE vectors
    IN  IF class = "TextChunk"
        THEN [index |-> held \o Similarities(batch),
              documents |-> docs \o Contents(batch), raised |-> FALSE]
        ELSE [index |-> held, documents |-> docs, raised |-> TRUE]

\* lifespan, startup part: a new process, load_index(), and process_all_data
\* begun when load_index returned False
Lifespan ==
    /\ rebuild.running = {} /\ rebuild.boots < MaxBoots
    /\ \E ierr \in IndexReadErrors, derr \in DocumentsReadErrors :
          LET loaded == LoadIndex(NoIndex, <<>>, index_file, documents_file, ierr, derr)
          IN  /\ index' = loaded.index
              /\ documents' = loaded.documents
              /\ op' = Called("load_index", loaded.returned, 0, NoIndex, <<>>)
              /\ rebuild' = [rebuild EXCEPT
                    !.boots = @ + 1, !.log = <<>>,
                    !.tasks = [t \in Tasks |->
                                 IF t = 0 /\ loaded.returned # "True"
                                 THEN "begin" ELSE "idle"]]
    /\ roundtrip' = NoRoundTrip
    /\ unstructured_results' = <<>>
    /\ UNCHANGED <<pipeline, index_file, documents_file, nsaves>>

\* POST /reprocess-data: background_tasks.add_task(preprocessor.process_all_data)
ReprocessData ==
    /\ Serving /\ rebuild.running = {}
    /\ \E t \in Tasks \ { 0 } :
          /\ rebuild.tasks[t] = "idle"
          /\ rebuild' = [rebuild EXCEPT !.tasks[t] = "begin"]
    /\ op' = Called("reprocess_data", "None", 0, NoIndex, <<>>)
    /\ unstructured_results' = <<>>
    /\ UNCHANGED <<pipeline, index, documents, index_file, documents_file, nsaves,
                   roundtrip>>

\* groundwater_data = await self.process_structured_data(); with data found,
\* await db_manager.store_groundwater_data(groundwater_data)
StoreStructured ==
    /\ \E t \in Tasks :
          /\ CanRun(t) /\ rebuild.tasks[t] = "begin"
          /\ rebuild' = IF rebuild.found.structured # <<>>
                        THEN [rebuild EXCEPT !.tasks[t] = "storing",
                                             !.running = IF Suspends(35) THEN {} ELSE { t }]
                        ELSE [rebuild EXCEPT !.tasks[t] = "unstructured",
                                             !.running = { t }]
    /\ UNCHANGED <<pipeline, index, documents, index_file, documents_file, nsaves,
                   op, roundtrip, unstructured_results>>

\* vector_store.add_documents(structured_documents), then
\* documents = await self.process_unstructured_data()
AddStructured ==
    /\ \E t \in Tasks :
          /\ CanRun(t) /\ rebuild.tasks[t] = "storing"
          /\ LET added == AddChunks(index, documents, rebuild.found.structured,
                                    rebuild.chunk_class)
             IN  /\ index' = added.index
                 /\ documents' = added.documents
                 /\ rebuild' =
                        IF added.raised
                        THEN [rebuild EXCEPT !.tasks[t] = "raised", !.running = {}]
                        ELSE [rebuild EXCEPT
                                 !.tasks[t] = "unstructured",
                                 !.log = Append(@, Logged(t, "add_documents")),
                                 !.running = IF Suspends(43) THEN {} ELSE { t }]
    /\ op' = Called("add_documents", "None", 0, NoIndex, <<>>)
    /\ roundtrip' = NoRoundTrip
    /\ unstructured_results' = <<>>
    /\ UNCHANGED <<pipeline, index_file, documents_file, nsaves>>

\* if documents: vector_store.add_documents(documents); vector_store.save_index()
\* and the end of process_all_data
AddUnstructuredAndSave ==
    /\ \E t \in Tasks :
          /\ CanRun(t) /\ rebuild.tasks[t] = "unstructured"
          /\ LET batch == rebuild.found.unstructured
                 added == AddChunks(index, documents, batch, rebuild.chunk_class)
             IN  IF batch = <<>>
                 THEN /\ rebuild' = [rebuild EXCEPT !.tasks[t] = "done", !.running = {}]
                      /\ UNCHANGED <<index, documents, index_file, documents_file,
                                     nsaves, op>>
                 ELSE IF added.raised
                 THEN /\ index' = added.index
                      /\ rebuild' = [rebuild EXCEPT !.tasks[t] = "raised",
                                                    !.running = {}]
                      /\ op' = Called("add_documents", "None", 0, NoIndex, <<>>)
                      /\ UNCHANGED <<documents, index_file, documents_file, nsaves>>
                 ELSE /\ index' = added.index
                      /\ documents' = added.documents
                      /\ nsaves' = nsaves + 1
                      /\ index_file' = File(WriteIndex(added.index), nsaves + 1)
                      /\ documents_file' = File(PickleDump(added.documents), nsaves + 1)
                      /\ rebuild' = [rebuild EXCEPT
                             !.tasks[t] = "done", !.running = {},
                             !.log = @ \o << Logged(t, "add_documents"),
                                             Logged(t, "save_index") >>]
                      /\ op' = Called("save_index", "None", 0, NoIndex, <<>>)
    /\ roundtrip' = NoRoundTrip
    /\ unstructured_results' = <<>>
    /\ UNCHANGED pipeline

\* search_similar called by a request handler, which runs when no coroutine of a
\* rebuild holds the event loop
SearchWhileServing ==
    /\ Serving /\ rebuild.running = {}
    /\ SearchSimilarCall

\* A store directory that is empty at first, before the first start
InitRebuild ==
    /\ Idle
    /\ index_file = Absent /\ documents_file = Absent
    /\ nsaves = 0 /\ op = NoOp /\ roundtrip = NoRoundTrip
    /\ \E f \in FoundData, c \in ChunkClasses :
          rebuild = [NoRebuild EXCEPT !.found = f, !.chunk_class = c]
    /\ query = "what is groundwater recharge?"
    /\ processor = "rag" /\ gemini_model = FALSE /\ retriever = FALSE
    /\ fault = "none"
    /\ db_mode = "mock" /\ collection = <<>>
    /\ index = NoIndex /\ documents = <<>>

NextRebuild ==
    \/ Lifespan
    \/ ReprocessData
    \/ StoreStructured
    \/ AddStructured
    \/ AddUnstructuredAndSave
    \/ SearchWhileServing

SpecRebuild == InitRebuild /\ [][NextRebuild]_vars

-----------------------------------------------------------------------------
(* Properties of process_query *)

Terminal == pc \in { "returned", "failed" }

WellFormed(r) ==
    /\ r.response_time = "measured"
    /\ r.confidence_score \in 0..100
    /\ r.answer \in STRING

NoRetrievalCall ==
    \A i \in 1..Len(calls) : calls[i].op \notin { "query_groundwater_data", "search_similar" }

NoGenerationCall == \A i \in 1..Len(calls) : calls[i] # GenerateCall

\* The response of a request that went through the handler is the fixed apology
\* with no sources, confidence 0.0 and a response time; a request that has ended
\* has a response, one that has not ended has none
HandlerResponse ==
    /\ pc = "failed" =>
           /\ response.answer = ApologyAnswer
           /\ response.sources = <<>>
           /\ response.confidence_score = 0
           /\ response.response_time = "measured"
    /\ Terminal => response # NoResponse /\ response.response_time = "measured"
    /\ (~Terminal) => response = NoResponse

\* C1: process_query never lets an exception out.  No exception raised by a step
\* leaves process_query: whatever its class, the handler takes it, and the
\* response is the fixed apology with no sources, confidence 0.0 and a response
\* time.
C1_ExceptionContained ==
    /\ pc # "propagated"
    /\ pc = "raised" => exc \in ExceptionClasses /\ Catches(exc)
    /\ HandlerResponse

\* A request in which build_context raised has ended with the apology
C1_Witness ==
    /\ pc = "failed" /\ processor = "rag" /\ fault = "build_context"
    /\ response = ErrorResponse

\* C2 as stated: with a fault in the entity extractor, the structured retriever,
\* the vector index or the generation call of a request on the retrieval path, the
\* response has confidence 0.0.
C2_FaultGivesZeroConfidence ==
    ( /\ processor = "rag" /\ Terminal
      /\ fault \in { "extract_entities", "retrieve_structured", "search_similar",
                      "generate_content" }
      /\ intent \notin Conversational )
        => /\ WellFormed(response)
           /\ response.confidence_score = 0

\* C2, amended: every such fault yields a well-formed response.  A fault of the
\* entity extractor or of _retrieve_structured_data reaches the handler of
\* process_query: the apology with confidence 0.0.  A fault of the vector index
\* search, of the generation call or of the store query is absorbed where it
\* occurs (no passages, the fallback text, no records): the request returns
\* normally with the confidence of its path, which is above 0.0.
C2_FaultAbsorbedOrZero ==
    (processor = "rag" /\ Terminal /\ fault # "none") =>
        /\ WellFormed(response)
        /\ fault = "extract_entities" => response = ErrorResponse
        /\ (fault = "retrieve_structured" /\ intent \notin Conversational)
               => response = ErrorResponse
        /\ fault \in { "search_similar", "generate_content", "collection_find" } =>
               /\ pc = "returned"
               /\ response.confidence_score > 0
               /\ response.answer # ApologyAnswer
        /\ (fault = "search_similar" /\ intent \notin Conversational) =>
               /\ SearchCall \in { calls[i] : i \in 1..Len(calls) }
               /\ unstructured_results = <<>>
        /\ (fault = "generate_content" /\ intent \notin Conversational) =>
               response.answer = GenerateFallbackAnswer(query, context, intent)

\* The vector index search raised, and the request returned an answer built on the
\* structured records with a confidence well above zero
C2_Witness ==
    /\ pc = "returned" /\ processor = "rag" /\ fault = "search_similar"
    /\ intent = "statistics"
    /\ index # NoIndex
    /\ structured_results # <<>> /\ unstructured_results = <<>>
    /\ response.confidence_score > 50

\* C3: a request classified greeting, farewell or help takes the short circuit:
\* no store query, no vector search, no context; it returns with no sources and
\* confidence 1.0, with or without a generation backend.
C3_ShortCircuit ==
    (processor = "rag" /\ intent \in Conversational) =>
        /\ pc \in { "classified", "returned" }
        /\ NoRetrievalCall
        /\ structured_results = <<>> /\ unstructured_results = <<>> /\ context = ""
        /\ pc = "returned" =>
               /\ response.sources = <<>>
               /\ response.confidence_score = 100
               /\ response.answer = answer

\* A greeting answered by the generation backend, returned through the short circuit
C3_Witness ==
    /\ pc = "returned" /\ processor = "rag" /\ query = "hello" /\ intent = "greeting"
    /\ gemini_model /\ calls = << GenerateCall >>
    /\ db_mode = "mongo" /\ collection # <<>> /\ index # NoIndex
    /\ response.confidence_score = 100 /\ response.sources = <<>>

\* C4: a request of a technical intent for which both retrieval channels found
\* nothing has an empty context, never calls the generation backend, answers with
\* the fixed no-information text, cites no sources and has the floor confidence 0.1.
C4_NothingRetrieved ==
    ( /\ processor = "rag" /\ pc \in { "context", "generated", "returned" }
      /\ intent \notin Conversational
      /\ structured_results = <<>> /\ unstructured_results = <<>> )
        => /\ context = ""
           /\ NoGenerationCall
           /\ pc \in { "generated", "returned" } => answer = FallbackNoContext
           /\ pc = "returned" =>
                  /\ response.answer = FallbackNoContext
                  /\ response.sources = <<>>
                  /\ response.confidence_score = 10

\* With a generation backend configured and no fault, a query that matches nothing
\* in a store that holds records returned the no-information text
C4_Witness ==
    /\ pc = "returned" /\ processor = "rag" /\ gemini_model /\ fault = "none"
    /\ query = "abcdefgh random nonsense" /\ intent = "general"
    /\ db_mode = "mongo" /\ collection # <<>>
    /\ structured_results = <<>> /\ unstructured_results = <<>>
    /\ response.answer = FallbackNoContext

\* C5: a generation call that raises is the same as no generation backend:
\* _generate_answer does not raise, and for the same query, context and intent it
\* returns the same fallback text in both cases.
C5_FailedCallIsFallback ==
    /\ (processor = "rag" /\ pc \in { "context", "generated", "returned" }) =>
           LET the_context == IF intent \in Conversational THEN "" ELSE context
               unconfigured == { GenerateAnswer(query, the_context, intent, FALSE, o) :
                                   o \in { GenerationOutcome(r, t) :
                                             r \in BOOLEAN, t \in GeneratedTexts } }
               failing == GenerateAnswer(query, the_context, intent, TRUE,
                                         GenerationOutcome(TRUE, ""))
           IN  /\ unconfigured = { failing }
               /\ failing = GenerateFallbackAnswer(query, the_context, intent)
               /\ (pc # "context" /\ (~gemini_model \/ fault = "generate_content"))
                      => answer = failing
    /\ (processor = "rag" /\ fault = "generate_content") => pc # "raised"

\* The call of a configured backend raised on a context with records, and the
\* answer is the fallback text of the statistics intent
C5_Witness ==
    /\ pc = "generated" /\ processor = "rag" /\ gemini_model
    /\ fault = "generate_content" /\ intent = "statistics"
    /\ context # "" /\ calls[Len(calls)] = GenerateCall
    /\ answer = FallbackStatistics

\* The confidence of the response process_query returns for the request at hand
\* when the generation backend is configured and returns the text t
BackedConfidence(t) ==
    IF intent \in Conversational THEN ShortCircuitConfidence
    ELSE CalculateConfidence(context,
             GenerateAnswer(query, context, intent, TRUE, GenerationOutcome(FALSE, t)))

\* C6: without a generation backend process_query returns a non-empty answer
\* whose confidence is strictly less than the confidence of a generation-backed
\* answer for the same query with the same context.
C6_FallbackScoresLower ==
    (processor = "rag" /\ pc = "returned" /\ ~gemini_model /\ fault = "none") =>
        /\ response.answer # ""
        /\ \A t \in GeneratedTexts :
               CallsGeneration(TRUE, IF intent \in Conversational THEN "" ELSE context,
                               intent)
                   => response.confidence_score < BackedConfidence(t)

-----------------------------------------------------------------------------
(* Properties of _classify_intent *)

HelpVocabulary(q) ==
    AnyIn(help_patterns, Lower(q)) \/ AnyIn(help_questions, Lower(q))
GreetingVocabulary(q) == AnyIn(greeting_patterns, Lower(q))
FarewellVocabulary(q) == AnyIn(farewell_patterns, Lower(q))
ComparisonVocabulary(q) == AnyIn(comparison_patterns, Lower(q))
DataRequest(q) == AnyIn(data_request_patterns, Lower(q))
StatisticsVocabulary(q) ==
    \/ DataRequest(q)
    \/ /\ AnyIn(States, Lower(q))
       /\ AnyIn(Metrics, Lower(q)) \/ AnyIn(stats_keywords, Lower(q))

\* The categories in their order of precedence, each with whether q has its vocabulary
Precedence(q) ==
    << <<"help", HelpVocabulary(q)>>, <<"greeting", GreetingVocabulary(q)>>,
       <<"farewell", FarewellVocabulary(q)>>, <<"comparison", ComparisonVocabulary(q)>>,
       <<"statistics", StatisticsVocabulary(q)>> >>

\* C7: for every query, the empty one and those matching no vocabulary included,
\* _classify_intent returns one label, a function of the query text, and the label
\* is one of the seven.
C7_OneLabel ==
    /\ ClassifyIntent(query) \in IntentLabels
    /\ pc = "classified" => intent = ClassifyIntent(query) /\ intent \in IntentLabels

\* A query that matches no vocabulary at all has been classified general
C7_Witness ==
    /\ pc = "classified" /\ query = "xyz aquifer" /\ intent = "general"
    /\ ~AnyIn(default_keywords, Lower(query))

\* C8: the rules apply in the order help, greeting, farewell, comparison,
\* statistics: a query with the vocabulary of two or more of these categories is
\* given the label of the earliest of them.
C8_Precedence ==
    pc = "classified" =>
        LET order   == Precedence(query)
            present == { i \in 1..Len(order) : order[i][2] }
        IN  Cardinality(present) >= 2 =>
                \E i \in present : /\ \A j \in present : i <= j
                                   /\ intent = order[i][1]

\* A greeting that also asks how to use the system has been classified help
C8_Witness ==
    /\ pc = "classified" /\ query = "hi, how do I use this?"
    /\ HelpVocabulary(query) /\ GreetingVocabulary(query)
    /\ intent = "help"

\* C9: a query with a data-request phrase is never classified explanation, also
\* when it matches a definition or explanation pattern; with no help, greeting,
\* farewell or comparison vocabulary it is classified statistics.
C9_StatisticsOverExplanation ==
    (pc = "classified" /\ DataRequest(query)) =>
        /\ intent # "explanation"
        /\ ( /\ ~HelpVocabulary(query) /\ ~GreetingVocabulary(query)
             /\ ~FarewellVocabulary(query) /\ ~ComparisonVocabulary(query) )
               => intent = "statistics"

\* "What is rainfall in Bihar" matches the definition pattern "what is" and has
\* been classified statistics
C9_Witness ==
    /\ pc = "classified" /\ query = "What is rainfall in Bihar"
    /\ AnyIn(definition_patterns, Lower(query))
    /\ DataRequest(query)
    /\ intent = "statistics"

\* C10: for every metric name m and state name s of the extractor vocabulary, the
\* query made of m and s alone is classified statistics.
C10_MetricAndStateIsStatistics ==
    (pc = "classified" /\ query \in MetricStateQueries) => intent = "statistics"

-----------------------------------------------------------------------------
(* Properties of the retrieval path *)

Retrieved == pc \in { "structured", "unstructured", "context", "generated", "returned" }

\* The record is one of the state s: its state field is s, in any letter case
RecordOf(item, s) ==
    \E i \in 1..Len(state_fields) :
        HasKey(item, state_fields[i]) /\ Lower(Get(item, state_fields[i]).s) = s

\* The records the store returns for the state s
StoreRecords(s) == QueryGroundwaterData(db_mode, collection, s, "", FALSE)

\* C11: for a query that names two or more vocabulary states, each with at least
\* one record in the store, the structured hits hold at least one record of every
\* named state, however many records a state has.
C11_EveryNamedStateHit ==
    ( /\ processor = "rag" /\ fault = "none" /\ Retrieved
      /\ Len(entities.states) >= 2
      /\ \A n \in 1..Len(entities.states) : StoreRecords(entities.states[n]) # <<>> )
        => \A n \in 1..Len(entities.states) :
               \E i \in 1..Len(structured_results) :
                   RecordOf(structured_results[i], entities.states[n])

\* "what is rainfall in <state>?"
RainfallQuestion(s) == "what is rainfall in " \o s \o "?"

\* The rainfall line of the record block of a record
RainfallLine(item) ==
    "Annual Rainfall: " \o Get(item, FirstKey(item, IsRainfallKey)).s \o " mm"

\* C12: a query that names a state with a record that has a rainfall value is
\* classified statistics, takes the retrieval path, and the context holds a record
\* block with the rainfall value of that record.
C12_RainfallShown ==
    \A n \in 1..Len(States) :
        ( /\ processor = "rag" /\ fault = "none" /\ pc = "returned"
          /\ query = RainfallQuestion(States[n])
          /\ StoreRecords(States[n]) # <<>>
          /\ FirstKey(StoreRecords(States[n])[1], IsRainfallKey) # NoKey )
            => /\ intent = "statistics"
               /\ ~NoRetrievalCall
               /\ Contains(context, RainfallLine(StoreRecords(States[n])[1]))

-----------------------------------------------------------------------------
(* Properties of _extract_entities *)

\* The terms of the vocabulary that occur in the lowercased query
Occurring(vocabulary, q) ==
    { vocabulary[i] : i \in { j \in 1..Len(vocabulary) : Contains(Lower(q), vocabulary[j]) } }

\* The list holds exactly the terms of the set, each once
ExactlyOnce(list, terms) ==
    /\ { list[i] : i \in 1..Len(list) } = terms
    /\ Len(list) = Cardinality(terms)

\* C13: for states, metrics and years, _extract_entities returns exactly the
\* vocabulary terms that occur as substrings of the lowercased query (inside
\* another word too), each once; a second call on the same text returns the same
\* lists, and the call changes nothing but its result.
C13_ExactEntities ==
    /\ [](pc \in { "extracted", "classified" } =>
             /\ ExactlyOnce(entities.states, Occurring(States, query))
             /\ ExactlyOnce(entities.metrics, Occurring(Metrics, query))
             /\ ExactlyOnce(entities.years, Occurring(Years, query))
             /\ ExtractEntities(query) = entities)
    /\ [][(pc = "received" /\ pc' = "extracted") =>
             UNCHANGED <<config, intent, structured_results, unstructured_results,
                         context, answer, response, calls, exc>>]_vars

\* "goa" found inside "goal", with a metric and a year
C13_Witness ==
    /\ pc = "extracted" /\ query = "the goal for 2022 rainfall"
    /\ entities = [states |-> <<"goa">>, metrics |-> <<"rainfall">>, years |-> <<"2022">>]

-----------------------------------------------------------------------------
(* Properties of the context and the sources *)

Built == pc \in { "context", "generated", "returned" }

\* The number of places at which p occurs in s
CountOf(s, p) ==
    Cardinality({ i \in 0..(Len(s) - Len(p)) : SubSeq(s, i + 1, i + Len(p)) = p })

StartsWith(s, p) == Len(s) >= Len(p) /\ SubSeq(s, 1, Len(p)) = p

\* The vector search finds nothing for the request at hand, or raises
SearchEmptyOrRaises ==
    \/ fault = "search_similar"
    \/ fault = "none" /\ SearchSimilar(index, documents, top_k_results) = <<>>

\* C15: with the index not loaded or empty search_similar returns []; when the
\* vector search returns [] or raises, a request of a technical intent completes
\* the retrieval path with the context and the sources of the structured hits
\* alone.
C15_StructuredOnly ==
    /\ (index = NoIndex \/ index = <<>>) =>
           \A k \in 1..top_k_results : SearchSimilar(index, documents, k) = <<>>
    /\ ( /\ processor = "rag" /\ intent # "" /\ intent \notin Conversational
         /\ SearchEmptyOrRaises )
           => /\ pc \in { "classified", "structured", "unstructured", "context",
                          "generated", "returned" }
              /\ unstructured_results = <<>>
              /\ Built =>
                     /\ context = BuildContext(structured_results, <<>>, entities)
                     /\ ~Contains(context, "ADDITIONAL DOCUMENTS")
              /\ pc = "returned" =>
                     /\ response.answer # ApologyAnswer
                     /\ response.sources =
                            [i \in 1..Len(structured_results) |->
                               StructuredSource(structured_results[i])]

\* The search of a loaded index raised, and the request returned with the context
\* and the sources of its structured records
C15_Witness ==
    /\ pc = "returned" /\ processor = "rag" /\ fault = "search_similar"
    /\ index # NoIndex /\ index # <<>>
    /\ structured_results # <<>>
    /\ Contains(context, "GROUNDWATER DATABASE RECORDS")
    /\ Len(response.sources) = Len(structured_results)

\* C19: whatever the numbers and sizes of the hits, the context holds at most 5
\* record blocks and at most 3 document blocks, and a document block carries at
\* most 500 characters of content.
C19_ContextBounded ==
    (processor = "rag" /\ Built) =>
        LET parts == ContextParts(structured_results, unstructured_results)
            label == "  " \o Bullet \o " Content: "
        IN  /\ context = Join(parts, "\n")
            /\ CountOf(context, "\n\nRecord ") <= 5
            /\ CountOf(context, "\n\nDocument ") <= 3
            /\ Cardinality({ i \in 1..Len(parts) : StartsWith(parts[i], "\nRecord ") }) <= 5
            /\ Cardinality({ i \in 1..Len(parts) : StartsWith(parts[i], "\nDocument ") }) <= 3
            /\ \A i \in 1..Len(parts) :
                   StartsWith(parts[i], label) => Len(parts[i]) <= Len(label) + 500 + 3

\* Ten records and five passages retrieved, one passage longer than 500
\* characters: five record blocks and three document blocks in the context
C19_Witness ==
    /\ Built /\ processor = "rag"
    /\ Len(structured_results) = 10 /\ Len(unstructured_results) = 5
    /\ \E i \in 1..3 : Len(unstructured_results[i].doc.content) > 500
    /\ CountOf(context, "\n\nRecord ") = 5
    /\ CountOf(context, "\n\nDocument ") = 3

\* C20: in a response of the retrieval path the source list has one entry per
\* retrieved hit, the structured hits first, in the order of retrieval; so every
\* record and every document shown in the context has its entry.
C20_Traceable ==
    ( /\ processor = "rag" /\ pc = "returned"
      /\ intent \notin Conversational )
        => LET sources == response.sources
               ns == Len(structured_results)
               nu == Len(unstructured_results)
           IN  /\ Len(sources) = ns + nu
               /\ \A i \in 1..ns :
                      /\ sources[i].type = "structured"
                      /\ sources[i].metadata = structured_results[i]
               /\ \A j \in 1..nu :
                      /\ sources[ns + j].type = "unstructured"
                      /\ sources[ns + j].source = unstructured_results[j].doc.source
                      /\ sources[ns + j].relevance_score
                             = unstructured_results[j].similarity_score
                      /\ sources[ns + j].content
                             = Take(unstructured_results[j].doc.content, 200) \o "..."
               /\ \A i \in 1..Min(ns, 5) :
                      Contains(context, Join(RecordBlock(sources[i].metadata, i), "\n"))
               /\ \A j \in 1..Min(nu, 3) :
                      Contains(context,
                               "\nDocument " \o ToString(j) \o ":\n  " \o Bullet
                                   \o " Source: " \o sources[ns + j].source_type
                                   \o "\n  " \o Bullet \o " Content: "
                                   \o Take(unstructured_results[j].doc.content, 200))
               /\ CountOf(context, "\n\nRecord ") <= ns
               /\ CountOf(context, "\n\nDocument ") <= nu

\* A response whose context shows three records and three of five
\* retrieved documents and whose
\* source list has the eight entries
C20_Witness ==
    /\ pc = "returned" /\ processor = "rag" /\ fault = "none"
    /\ Len(structured_results) = 3 /\ Len(unstructured_results) = 5
    /\ CountOf(context, "\n\nRecord ") = 3 /\ CountOf(context, "\n\nDocument ") = 3
    /\ Len(response.sources) = 8

-----------------------------------------------------------------------------
(* Properties of VectorStoreManager *)

NonIncreasing(results) ==
    \A i \in 1..(Len(results) - 1) :
        results[i].similarity_score >= results[i + 1].similarity_score

RankIsPosition(results) == \A i \in 1..Len(results) : results[i].rank = i

\* Both files are there and each holds what one write put into it
Readable ==
    /\ index_file.exists /\ documents_file.exists
    /\ ReadIndex(index_file.bytes).ok /\ PickleLoad(documents_file.bytes).ok

\* C14: in every state of the store reached by add_documents, save_index and
\* load_index, over restarts of the process and without faults of the disk,
\* search_similar returns for every k its results in non-increasing order of
\* similarity_score, the result at position i with rank i.
C14_SortedAndRanked ==
    fault = "none" =>
        /\ \A k \in 1..top_k_results :
               /\ NonIncreasing(SearchSimilar(index, documents, k))
               /\ RankIsPosition(SearchSimilar(index, documents, k))
        /\ op.name = "search_similar" =>
               /\ unstructured_results = SearchSimilar(index, documents, op.top_k)
               /\ NonIncreasing(unstructured_results)
               /\ RankIsPosition(unstructured_results)

\* C16: load_index never raises; it returns True exactly when both files exist and
\* were read, the manager then holding what they hold, and False when a file is
\* missing, corrupt or unreadable.
C16_LoadNeverRaises ==
    op.name = "load_index" =>
        /\ op.returned \in { "True", "False" }
        /\ op.returned = "True" <=> Readable
        /\ op.returned = "True" =>
               /\ index = ReadIndex(index_file.bytes).value
               /\ documents = PickleLoad(documents_file.bytes).value
        /\ (~index_file.exists \/ ~documents_file.exists) => op.returned = "False"

\* load_index found both files, the index file cut short, and returned False
C16_Witness ==
    /\ op.name = "load_index" /\ op.returned = "False"
    /\ index_file.exists /\ documents_file.exists
    /\ ~ReadIndex(index_file.bytes).ok

\* C17: after add_documents(D) with D not empty, save_index() and load_index(), in
\* the same manager or in a new one, load_index has returned True and
\* search_similar returns for every k the documents, scores and ranks that the
\* index returned before the save.
C17_RoundTrip ==
    roundtrip.stage = "loaded" =>
        /\ op.name = "load_index" => op.returned = "True"
        /\ \A k \in 1..top_k_results :
               SearchSimilar(index, documents, k)
                   = SearchSimilar(roundtrip.index, roundtrip.documents, k)
        /\ op.name = "search_similar" =>
               unstructured_results
                   = SearchSimilar(roundtrip.index, roundtrip.documents, op.top_k)

\* A search of two results after the round trip, equal to the search before it
C17_Witness ==
    /\ roundtrip.stage = "loaded" /\ op.name = "search_similar"
    /\ Len(roundtrip.index) = 2
    /\ Len(unstructured_results) = 2
    /\ unstructured_results
           = SearchSimilar(roundtrip.index, roundtrip.documents, op.top_k)

\* C18: a load_index that returns True has restored vectors and documents that one
\* save_index wrote together; any other load_index returns False and leaves the
\* index and the document list of the manager as they were.
C18_AtomicUnit ==
    op.name = "load_index" =>
        /\ op.returned = "True" =>
               /\ index_file.save = documents_file.save
               /\ index = ReadIndex(index_file.bytes).value
               /\ documents = PickleLoad(documents_file.bytes).value
        /\ op.returned # "True" =>
               /\ op.returned = "False"
               /\ index = op.before.index
               /\ documents = op.before.documents

-----------------------------------------------------------------------------
(* Properties of _calculate_confidence *)

Score == CalculateConfidence(context, answer)

\* A response of QueryProcessor on the retrieval path
Scored == processor = "rag" /\ pc = "returned" /\ intent \notin Conversational

\* C21: _calculate_confidence returns exactly 0.1 whenever the context or the
\* answer is empty, whatever the other argument.
C21_Floor ==
    (context = "" \/ answer = "") =>
        /\ Score = 10
        /\ Scored => response.confidence_score = 10

\* A response scored on an empty context and an answer of 300 characters
C21_Witness ==
    /\ Scored /\ context = "" /\ Len(answer) = 300
    /\ response.confidence_score = 10

\* C22: every response of process_query carries a confidence within [0,1]: 1.0
\* on the short-circuit path, 0.0 on the failure path, else the value of
\* _calculate_confidence, which is within [0,1] for every context and answer.
C22_ConfidenceDefined ==
    /\ Score \in 0..100
    /\ (processor = "rag" /\ pc \in { "returned", "failed" }) =>
           /\ response.confidence_score \in 0..100
           /\ response.confidence_score =
                  IF pc = "failed" THEN 0
                  ELSE IF intent \in Conversational THEN 100
                  ELSE Score

\* A response scored on a context of 2500 characters and an answer of 300 with a
\* digit and a domain word: the highest score, 0.85
C22_Witness ==
    /\ Scored /\ Len(context) = 2500 /\ Len(answer) = 300
    /\ response.confidence_score = 85

\* C27: for a fixed answer the score never decreases as the context grows, from
\* the empty context on; for a fixed context it never decreases as the answer
\* grows with the same digit and domain-word signals; no input scores below 0.1.
C27_Monotone ==
    /\ [][ ( /\ pc = "generated" /\ pc' = "generated"
             /\ \/ answer' = answer /\ Len(context') > Len(context)
                \/ /\ context' = context /\ Len(answer') > Len(answer)
                   /\ HasDigit(answer') = HasDigit(answer)
                   /\ AnyIn(specificity_words, Lower(answer'))
                          = AnyIn(specificity_words, Lower(answer)) )
           => CalculateConfidence(context', answer') >= Score ]_vars
    /\ [](Score >= 10)
    /\ [](Scored => response.confidence_score >= 10)

-----------------------------------------------------------------------------
(* Order of the steps of process_query and of _retrieve_structured_data *)

\* The positions of the calls of one kind in the log
CallsOf(name) == { i \in 1..Len(calls) : calls[i].op = name }

TextSearches == { i \in CallsOf("query_groundwater_data") : calls[i].state = "" }
StateQueries == { i \in CallsOf("query_groundwater_data") : calls[i].state # "" }

\* The order in which a request of the retrieval path passes its steps
RetrievalOrder ==
    { <<"classified", "structured">>, <<"structured", "unstructured">>,
      <<"unstructured", "context">>, <<"context", "generated">>,
      <<"generated", "returned">> }

\* C25: for a query of a non-conversational intent process_query consults the
\* structured retriever and then the vector index, each whether or not the other
\* found hits, builds the context only after both returned, calls the answer
\* generation only after the context is built, and computes the confidence only
\* after the answer is there.
C25_StepOrder ==
    /\ []( ( /\ processor = "rag" /\ intent # "" /\ intent \notin Conversational
             /\ pc \notin { "raised", "failed", "propagated" } )
           => /\ pc \in { "unstructured", "context", "generated", "returned" } =>
                     /\ CallsOf("query_groundwater_data") # {}
                     /\ Cardinality(CallsOf("search_similar")) = 1
                     /\ \A i \in CallsOf("query_groundwater_data"),
                           j \in CallsOf("search_similar") : i < j
              /\ pc \in { "classified", "structured", "unstructured" } =>
                     context = "" /\ answer = "" /\ CallsOf("generate_content") = {}
              /\ pc = "structured" => CallsOf("search_similar") = {}
              /\ Built => context = BuildContext(structured_results,
                                                 unstructured_results, entities)
              /\ pc = "context" => answer = "" /\ CallsOf("generate_content") = {}
              /\ pc # "returned" => response = NoResponse
              /\ pc = "returned" =>
                     /\ response.answer = answer
                     /\ response.confidence_score = CalculateConfidence(context, answer)
                     /\ \A i \in CallsOf("search_similar"),
                           j \in CallsOf("generate_content") : i < j )
    /\ [][ ( /\ processor = "rag" /\ intent # "" /\ intent \notin Conversational
             /\ pc' # pc /\ pc' \notin { "raised", "failed", "propagated" } )
           => <<pc, pc'>> \in RetrievalOrder ]_vars

\* A response for which the structured retriever found nothing and the vector
\* index, consulted all the same, found passages
C25_Witness ==
    /\ Scored /\ fault = "none"
    /\ structured_results = <<>> /\ unstructured_results # <<>>
    /\ CallsOf("query_groundwater_data") # {} /\ CallsOf("search_similar") # {}
    /\ CallsOf("generate_content") # {}

\* C26: _retrieve_structured_data issues the free-text search exactly when the
\* queries by state yielded no record, the case of no state in the query
\* included, and returns at most 10 records.
C26_TextSearchFallback ==
    ( /\ processor = "rag" /\ intent \notin Conversational
      /\ pc \in { "structured", "unstructured", "context", "generated", "returned" } )
        => LET raises == fault = "collection_find"
               found(i) == QueryGroundwaterData(db_mode, collection, calls[i].state,
                                                "", raises)
           IN  /\ TextSearches # {} <=> \A i \in StateQueries : found(i) = <<>>
               /\ Cardinality(TextSearches) <= 1
               /\ \A i \in StateQueries, j \in TextSearches : i < j
               /\ \A j \in TextSearches : calls[j].text_search = query
               /\ Len(structured_results) <= 10

\* A query that names a state of which the store has no record: the query by
\* state, then the free-text search
C26_Witness ==
    /\ processor = "rag" /\ pc = "structured" /\ fault = "none"
    /\ StateQueries # {} /\ TextSearches # {}
    /\ collection # <<>>

-----------------------------------------------------------------------------
(* Properties of the index and its document list *)

\* The similarity of the embedding of an indexed document
SimilarityOf(doc) == (CHOOSE c \in Chunks : c.doc = doc).similarity

\* C28: search_similar(query, k) returns at most min(k, number of indexed
\* documents) results, each the document stored at the position the similarity
\* search reported, no position twice, also for k above the number of documents.
C28_AtMostIndexed ==
    (index # NoIndex /\ documents # <<>>) =>
        /\ \A k \in 1..top_k_results :
               LET found == FaissSearch(index, k)
                   results == SearchSimilar(index, documents, k)
               IN  /\ Len(results) <= Min(k, Len(documents))
                   /\ \A i \in 1..Len(results) :
                          /\ found[results[i].rank].idx \in 0..(Len(documents) - 1)
                          /\ results[i].doc = documents[found[results[i].rank].idx + 1]
                   /\ \A i, j \in 1..Len(results) :
                          i # j => found[results[i].rank].idx # found[results[j].rank].idx
        /\ op.name = "search_similar" =>
               Len(unstructured_results) <= Min(op.top_k, Len(documents))

\* C29: after any sequence of add_documents, save_index and load_index calls,
\* calls that fail part-way included, the index holds as many vectors as the list
\* holds documents, and vector i is the embedding of document i.
C29_IndexMatchesDocuments ==
    /\ index = NoIndex => documents = <<>>
    /\ index # NoIndex =>
           /\ Len(index) = Len(documents)
           /\ \A i \in 1..Len(documents) : index[i] = SimilarityOf(documents[i])

-----------------------------------------------------------------------------
(* Properties of the rebuild *)

\* The task has added documents and has not reached the end of process_all_data
MidRebuild(t) ==
    /\ rebuild.tasks[t] # "done"
    /\ \E i \in 1..Len(rebuild.log) : rebuild.log[i].task = t

\* No process_all_data is under way, one at least has run to its end
Rebuilt ==
    /\ rebuild.running = {}
    /\ \A t \in Tasks : rebuild.tasks[t] \in { "idle", "done" }
    /\ \E t \in Tasks : rebuild.tasks[t] = "done"

FoundChunks == rebuild.found.structured \o rebuild.found.unstructured

\* What load_index would restore from the two files in a new process
Restorable ==
    LoadIndex(NoIndex, <<>>, index_file, documents_file, "RuntimeError", "EOFError")

\* C23: add_documents with the same documents and save_index, invoked a second
\* time as a repeated reprocessing does, leave the index, the document list and
\* the files with the entries they had after the first time: each found document
\* once.
C23_Idempotent ==
    (Rebuilt /\ rebuild.chunk_class = "TextChunk" /\ FoundChunks # <<>>) =>
        /\ Len(documents) = Len(FoundChunks)
        /\ \A i \in 1..Len(FoundChunks) :
               documents[i] = FoundChunks[i].doc /\ index[i] = FoundChunks[i].similarity
        /\ Restorable.returned = "True" =>
               /\ Restorable.documents = documents
               /\ Restorable.index = index

\* C24: the adds and saves of two overlapping process_all_data runs never
\* interleave, and whenever the event loop is free for a request handler, as
\* at each search_similar, no run is between its first add and its end: the
\* index is as before a rebuild or as after it.
C24_Serialized ==
    /\ \A i, j, k \in 1..Len(rebuild.log) :
           (i < j /\ j < k /\ rebuild.log[i].task = rebuild.log[k].task)
               => rebuild.log[j].task = rebuild.log[i].task
    /\ rebuild.running = {} => \A t \in Tasks : ~MidRebuild(t)
    /\ op.name = "search_similar" =>
           /\ \A t \in Tasks : ~MidRebuild(t)
           /\ unstructured_results = SearchSimilar(index, documents, op.top_k)

\* A search while the second of two triggered rebuilds is suspended in
\* store_groundwater_data: it finds what the first one added and saved
C24_Witness ==
    /\ op.name = "search_similar" /\ unstructured_results # <<>>
    /\ rebuild.tasks[1] = "done" /\ rebuild.tasks[2] = "storing"
    /\ \E i \in 1..Len(rebuild.log) : rebuild.log[i] = Logged(1, "save_index")

====
